---- MODULE Spec2Model ----
(***************************************************************************)
(* The response resolver of the virtualization engine (create, resolve,    *)
(* resolveProxy and the proxy recording functions they call), as a state   *)
(* machine.  JavaScript objects are records whose optional properties are  *)
(* optional fields; strings that the code concatenates or splits are       *)
(* sequences of tokens; array indices are 0-based as in the source.        *)
(***************************************************************************)
EXTENDS Integers, Sequences, FiniteSets, TLC

VARIABLES
    inProcessProxy,           \* Boolean(proxy), fixed by create
    stubs,                    \* the stubs repository's list, stubs.stubs()
    stubIds,                  \* history: an identity for every entry of stubs
    pendingProxyResolutions,  \* property name -> saved proxy state
    nextProxyResolutionKey,
    inflight,                 \* suspended continuations (promises not yet settled)
    issued,                   \* history: key -> what the resolve that returned it stored
    recLog,                   \* history: the invocations of recordProxyResponse
    started,                  \* history: how many calls were counted against MaxCalls
    observed,                 \* whether last is kept, fixed at the start
    last,                     \* the outcome of the most recent step of a call
    imposterState,            \* the state object the imposter passes to every resolve
    injectState,              \* the resolver's own state object (line 17)
    injections,               \* the calls of inject, each with its deferred
    handed,                   \* the response objects callers of resolve still hold
    selection,                \* a match result and what selectionValue made of it
    imposters,                \* the controller's map from id to imposter
    objects,                  \* the imposter objects, which outlive their map entry
    awaiting,                 \* controller handlers waiting for validate or stop
    sent,                     \* history: what response.send was given, per request
    invoked                   \* history: the imposter methods the controller called

\* what the injection path reads and writes
dynVars == <<imposterState, injectState, injections>>

\* what the imposter controller reads and writes
ctlVars == <<imposters, objects, awaiting, sent, invoked>>

\* what the response resolver reads and writes
resolverVars == <<inProcessProxy, stubs, stubIds, pendingProxyResolutions,
                  nextProxyResolutionKey, inflight, issued, recLog, started, observed,
                  last, imposterState, injectState, injections, handed>>

vars == <<resolverVars, selection, ctlVars>>

----------------------------------------------------------------------------
(* Bounds of the model *)

\* proxy exchanges begun plus completions that found their key
MaxCalls == 3

\* calls of inject
MaxInjections == 2

\* response objects a caller keeps and may write to
MaxHanded == 2

----------------------------------------------------------------------------
(* Values *)

Has(obj, key) == key \in DOMAIN obj

\* {}
EmptyObject == [k \in {} |-> TRUE]

Digits == <<"0", "1", "2", "3", "4", "5", "6", "7", "8", "9">>

\* String(n) as the template literal and the property access compute it
RECURSIVE NumberToString(_)
NumberToString(n) ==
    IF n < 0 THEN <<"-">> \o NumberToString(0 - n)
    ELSE IF n < 10 THEN <<Digits[n + 1]>>
    ELSE NumberToString(n \div 10) \o <<Digits[(n % 10) + 1]>>

\* the tokens after the last "/" of an address
RECURSIVE LastPathSegment(_)
LastPathSegment(url) ==
    IF url = <<>> \/ url[Len(url)] = "/" THEN <<>>
    ELSE LastPathSegment(SubSeq(url, 1, Len(url) - 1)) \o <<url[Len(url)]>>

callbackURL == <<"http:", "/", "/", "mb", "/", "imposters", "/", "4545", "/", "_requests">>

\* `${callbackURL}/${key}` for a key that is already a string
CallbackAddress(keyString) == callbackURL \o <<"/">> \o keyString

\* names every object inherits from Object.prototype
InheritedKeys == {<<"constructor">>}

Requests == {[path |-> "/a", method |-> "GET"], [path |-> "/b", method |-> "GET"]}

\* what a downstream system answers, with new Date() - startTime as measured
\* when the answer arrives
ProxyReplies ==
    {[body |-> <<"x">>, elapsed |-> 0], [body |-> <<"y">>, elapsed |-> 7]}

ValidationError(message, source) ==
    [code |-> "bad data", message |-> message, source |-> source]

InjectionError(message, source, data) ==
    [code |-> "invalid injection", message |-> message, source |-> source, data |-> data]

MissingResourceError(message, source) ==
    [code |-> "no such resource", message |-> message, source |-> source]

TypeError(message) == [code |-> "TypeError", message |-> message]

----------------------------------------------------------------------------
(* Predicate generation *)

\* eval of `(${matcher.inject})(config)`: the generator functions of the model
EvalPredicateGenerator(fn, request) ==
    IF fn = "byPath"
    THEN [threw |-> FALSE, value |-> <<[equals |-> [path |-> request.path]]>>]
    ELSE [threw |-> TRUE, message |-> "generator fault"]

\* one non-inject matcher: every field of matcher.matches is marked true
MatcherPredicates(request, matcher) ==
    LET basePredicate == [k \in (DOMAIN matcher) \ {"matches"} |-> matcher[k]]
        fields == matcher.matches
    IN  [n \in 1..Len(fields) |->
            basePredicate @@
            [deepEquals |-> [f \in {fields[n]} |-> request[fields[n]]]]]

RECURSIVE PredicatesLoop(_, _, _)
PredicatesLoop(request, matchers, predicates) ==
    IF matchers = <<>> THEN [threw |-> FALSE, predicates |-> predicates]
    ELSE LET matcher == Head(matchers) IN
         IF Has(matcher, "inject")
         THEN LET r == EvalPredicateGenerator(matcher.inject, request) IN
              IF r.threw
              THEN [threw |-> TRUE,
                    error |-> InjectionError("invalid predicateGenerator injection",
                                             matcher.inject, r.message)]
              ELSE PredicatesLoop(request, Tail(matchers), predicates \o r.value)
         ELSE PredicatesLoop(request, Tail(matchers),
                             predicates \o MatcherPredicates(request, matcher))

\* a generator that throws is passed over and the loop goes on
RECURSIVE PredicatesLoopPassingOver(_, _, _)
PredicatesLoopPassingOver(request, matchers, predicates) ==
    IF matchers = <<>> THEN [threw |-> FALSE, predicates |-> predicates]
    ELSE LET matcher == Head(matchers) IN
         IF Has(matcher, "inject")
         THEN LET r == EvalPredicateGenerator(matcher.inject, request) IN
              PredicatesLoopPassingOver(request, Tail(matchers),
                  IF r.threw THEN predicates ELSE predicates \o r.value)
         ELSE PredicatesLoopPassingOver(request, Tail(matchers),
                  predicates \o MatcherPredicates(request, matcher))

predicatesForPassingOver(request, matchers) ==
    PredicatesLoopPassingOver(request, matchers, <<>>)

predicatesFor(request, matchers) == PredicatesLoop(request, matchers, <<>>)

\* responseConfig.proxy.predicateGenerators || []
GeneratorsOf(responseConfig) ==
    IF Has(responseConfig.proxy, "predicateGenerators")
    THEN responseConfig.proxy.predicateGenerators
    ELSE <<>>

\* responseConfig.proxy.mode, "" when the property is absent
ModeOf(responseConfig) ==
    IF Has(responseConfig.proxy, "mode") THEN responseConfig.proxy.mode ELSE ""

----------------------------------------------------------------------------
(* The stubs repository, as the resolver uses it *)

\* equality of the stable serializations: the order of the keys of an object
\* does not count, the order of the items of an array does
deepEqual(obj1, obj2) == obj1 = obj2

Min(S) == CHOOSE x \in S : \A y \in S : x <= y

StubAt(stubList, index) == stubList[index + 1]

\* the 0-based index of the first stub with a response deepEqual to
\* responseConfig, or the length of the list
stubIndexFor(stubList, responseConfig) ==
    LET hits == {i \in 0..(Len(stubList) - 1) :
                    \E r \in 1..Len(StubAt(stubList, i).responses) :
                        deepEqual(StubAt(stubList, i).responses[r], responseConfig)}
    IN  IF hits = {} THEN Len(stubList) ELSE Min(hits)

\* Array.prototype.splice(index, 0, item): an index past the end is the end
InsertAt(list, index, item) ==
    LET at == IF index > Len(list) THEN Len(list) ELSE index
    IN  SubSeq(list, 1, at) \o <<item>> \o SubSeq(list, at + 1, Len(list))

\* stubs.addStub(stub, responseConfig): the index the new stub gets, immediately
\* after the stub that holds responseConfig
AddStubIndex(stubList, responseConfig) ==
    LET after == stubIndexFor(stubList, responseConfig) + 1
    IN  IF after > Len(stubList) THEN Len(stubList) ELSE after

\* stubs.addStub(stub): the index the new stub gets, the end of the list
AddStubAtEndIndex(stubList) == Len(stubList)

\* stub.addResponse(response) on the stub at index
AddResponse(stubList, index, response) ==
    [stubList EXCEPT ![index + 1].responses = Append(@, response)]

\* responseConfig.setMetadata(responseType, metadata)
SetMetadata(responseConfig, responseType, metadata) ==
    [responseConfig EXCEPT ![responseType] = metadata @@ @]

----------------------------------------------------------------------------
(* The proxy recording functions *)

\* the scan stops one stub short of the end of the list
indexOfStubToAddResponseToShort(stubList, responseConfig, request) ==
    LET generated == predicatesFor(request, GeneratorsOf(responseConfig))
        from == stubIndexFor(stubList, responseConfig) + 1
        hits == {index \in from..(Len(stubList) - 2) :
                    /\ Has(StubAt(stubList, index), "predicates")
                    /\ deepEqual(generated.predicates, StubAt(stubList, index).predicates)}
    IN  IF generated.threw THEN [threw |-> TRUE, error |-> generated.error]
        ELSE [threw |-> FALSE, index |-> IF hits = {} THEN -1 ELSE Min(hits)]

indexOfStubToAddResponseTo(stubList, responseConfig, request) ==
    LET generated == predicatesFor(request, GeneratorsOf(responseConfig))
        from == stubIndexFor(stubList, responseConfig) + 1
        hits == {index \in from..(Len(stubList) - 1) :
                    /\ Has(StubAt(stubList, index), "predicates")
                    /\ deepEqual(generated.predicates, StubAt(stubList, index).predicates)}
    IN  IF generated.threw THEN [threw |-> TRUE, error |-> generated.error]
        ELSE [threw |-> FALSE, index |-> IF hits = {} THEN -1 ELSE Min(hits)]

newIsResponse(response, proxyConfig) ==
    LET wait == IF /\ Has(proxyConfig, "addWaitBehavior")
                   /\ proxyConfig.addWaitBehavior
                   /\ Has(response, "_proxyResponseTime")
                   /\ response._proxyResponseTime # 0
                THEN [wait |-> response._proxyResponseTime]
                ELSE EmptyObject
        decorate == IF Has(proxyConfig, "addDecorateBehavior")
                    THEN [decorate |-> proxyConfig.addDecorateBehavior]
                    ELSE EmptyObject
        addBehaviors == wait @@ decorate
    IN  IF DOMAIN addBehaviors # {}
        THEN [is |-> response, _behaviors |-> addBehaviors]
        ELSE [is |-> response]

\* the result of a recording call: the new list, or the error thrown
Recorded(stubList, effect, index) ==
    [threw |-> FALSE, stubs |-> stubList, effect |-> effect, index |-> index]

RecordingThrew(error) == [threw |-> TRUE, error |-> error, effect |-> "threw"]

addNewResponse(stubList, responseConfig, request, response) ==
    LET stubResponse == newIsResponse(response, responseConfig.proxy)
        found == indexOfStubToAddResponseTo(stubList, responseConfig, request)
    IN  IF found.threw THEN RecordingThrew(found.error)
        ELSE Recorded(AddResponse(stubList, found.index, stubResponse),
                      "append", found.index)

\* the new stub always goes to the end of the list
addNewStubAtEnd(stubList, responseConfig, request, response) ==
    LET generated == predicatesFor(request, GeneratorsOf(responseConfig))
        stubResponse == newIsResponse(response, responseConfig.proxy)
        newStub == [predicates |-> generated.predicates, responses |-> <<stubResponse>>]
    IN  IF generated.threw THEN RecordingThrew(generated.error)
        ELSE Recorded(InsertAt(stubList, AddStubAtEndIndex(stubList), newStub),
                      "insert", AddStubAtEndIndex(stubList))

\* the new stub always goes next to the stub of the response
addNewStubAfterResponse(stubList, responseConfig, request, response) ==
    LET generated == predicatesFor(request, GeneratorsOf(responseConfig))
        stubResponse == newIsResponse(response, responseConfig.proxy)
        newStub == [predicates |-> generated.predicates, responses |-> <<stubResponse>>]
    IN  IF generated.threw THEN RecordingThrew(generated.error)
        ELSE Recorded(InsertAt(stubList, AddStubIndex(stubList, responseConfig), newStub),
                      "insert", AddStubIndex(stubList, responseConfig))

addNewStub(stubList, responseConfig, request, response) ==
    LET generated == predicatesFor(request, GeneratorsOf(responseConfig))
        stubResponse == newIsResponse(response, responseConfig.proxy)
        newStub == [predicates |-> generated.predicates, responses |-> <<stubResponse>>]
        index == IF ModeOf(responseConfig) = "proxyAlways"
                 THEN AddStubAtEndIndex(stubList)
                 ELSE AddStubIndex(stubList, responseConfig)
    IN  IF generated.threw THEN RecordingThrew(generated.error)
        ELSE Recorded(InsertAt(stubList, index, newStub), "insert", index)

canAddResponseToExistingStub(stubList, responseConfig, request) ==
    indexOfStubToAddResponseTo(stubList, responseConfig, request)

\* a stub with the same predicates is reused whatever the mode
recordProxyResponseGreedy(stubList, responseConfig, request, response) ==
    IF ModeOf(responseConfig) = "proxyTransparent"
    THEN Recorded(stubList, "none", -1)
    ELSE LET can == canAddResponseToExistingStub(stubList, responseConfig, request) IN
         IF can.threw THEN RecordingThrew(can.error)
         ELSE IF can.index >= 0
         THEN addNewResponse(stubList, responseConfig, request, response)
         ELSE addNewStub(stubList, responseConfig, request, response)

\* the early return of proxyTransparent is missing
recordProxyResponseAlwaysRecording(stubList, responseConfig, request, response) ==
    IF ModeOf(responseConfig) = "proxyAlways"
    THEN LET can == canAddResponseToExistingStub(stubList, responseConfig, request) IN
         IF can.threw THEN RecordingThrew(can.error)
         ELSE IF can.index >= 0
         THEN addNewResponse(stubList, responseConfig, request, response)
         ELSE addNewStub(stubList, responseConfig, request, response)
    ELSE addNewStub(stubList, responseConfig, request, response)

\* the else is missing: after the response is added to the stub found, a new
\* stub is added as well
recordProxyResponseBoth(stubList, responseConfig, request, response) ==
    IF ModeOf(responseConfig) = "proxyTransparent"
    THEN Recorded(stubList, "none", -1)
    ELSE IF ModeOf(responseConfig) = "proxyAlways"
    THEN LET can == canAddResponseToExistingStub(stubList, responseConfig, request) IN
         IF can.threw THEN RecordingThrew(can.error)
         ELSE IF can.index >= 0
         THEN LET added == addNewResponse(stubList, responseConfig, request, response)
              IN  Recorded(addNewStub(added.stubs, responseConfig, request, response).stubs,
                           "append", added.index)
         ELSE addNewStub(stubList, responseConfig, request, response)
    ELSE addNewStub(stubList, responseConfig, request, response)

recordProxyResponse(stubList, responseConfig, request, response) ==
    IF ModeOf(responseConfig) = "proxyTransparent"
    THEN Recorded(stubList, "none", -1)
    ELSE IF ModeOf(responseConfig) = "proxyAlways"
    THEN LET can == canAddResponseToExistingStub(stubList, responseConfig, request) IN
         IF can.threw THEN RecordingThrew(can.error)
         ELSE IF can.index >= 0
         THEN addNewResponse(stubList, responseConfig, request, response)
         ELSE addNewStub(stubList, responseConfig, request, response)
    ELSE addNewStub(stubList, responseConfig, request, response)

----------------------------------------------------------------------------
(* The behavior pipeline and the response types *)

\* behaviors.execute(request, response, responseConfig._behaviors, logger), when
\* it resolves
ExecuteBehaviors(request, response, responseConfig) ==
    IF Has(responseConfig, "_behaviors") /\ Has(responseConfig._behaviors, "decorate")
    THEN IF Has(response, "body")
         THEN [response EXCEPT !.body = Append(@, responseConfig._behaviors.decorate)]
         ELSE [body |-> <<responseConfig._behaviors.decorate>>] @@ response
    ELSE response

\* whether the pipeline has anything that can reject
BehaviorsCanFail(responseConfig) == Has(responseConfig, "_behaviors")

\* the pipeline runs on every response but a proxy's, which already went
\* through it
ResolveThenAlways(responseConfig, request, response) ==
    ExecuteBehaviors(request, response, responseConfig)

\* the first continuation of resolve (lines 330-339)
ResolveThen(responseConfig, request, response) ==
    IF Has(responseConfig, "proxy")
    THEN response
    ELSE ExecuteBehaviors(request, response, responseConfig)

\* the second continuation of resolve (lines 339-346)
ResolveResult(responseConfig, response) ==
    IF inProcessProxy THEN response
    ELSE IF Has(responseConfig, "proxy") THEN response
    ELSE [response |-> response]

\* the is branch of processResponse without the clone: it resolves with the
\* stored object itself
processResponseIsStored(responseConfig, position) ==
    [value |-> responseConfig.is, alias |-> position]

\* the is branch of processResponse (lines 287-290): helpers.clone makes a new
\* object with the content of responseConfig.is; alias is the position of the
\* stored object that the resolved object is, <<>> when it is no stored object
processResponseIs(responseConfig, position) ==
    [value |-> responseConfig.is, alias |-> <<>>]

\* the check without its last pair
hasMultipleTypesButProxyInject(responseConfig) ==
    \/ Has(responseConfig, "is") /\ Has(responseConfig, "proxy")
    \/ Has(responseConfig, "is") /\ Has(responseConfig, "inject")

hasMultipleTypes(responseConfig) ==
    \/ Has(responseConfig, "is") /\ Has(responseConfig, "proxy")
    \/ Has(responseConfig, "is") /\ Has(responseConfig, "inject")
    \/ Has(responseConfig, "proxy") /\ Has(responseConfig, "inject")

ProxyModes == {"proxyOnce", "proxyAlways", "proxyTransparent"}

ResponseConfigAt(i, j) == StubAt(stubs, i).responses[j + 1]

ResponsePositions ==
    {p \in (0..(Len(stubs) - 1)) \X (0..3) : p[2] < Len(StubAt(stubs, p[1]).responses)}

Remove(seq, t) == SubSeq(seq, 1, t - 1) \o SubSeq(seq, t + 1, Len(seq))

\* the oldest saved state, whatever the key that was asked for
LookupPendingOldest(keyString) ==
    IF keyString \in DOMAIN pendingProxyResolutions
    THEN [found |-> "own",
          value |-> pendingProxyResolutions[
              CHOOSE k \in DOMAIN pendingProxyResolutions :
                  \A other \in DOMAIN pendingProxyResolutions :
                      issued[k].number <= issued[other].number]]
    ELSE IF keyString \in InheritedKeys
    THEN [found |-> "inherited"]
    ELSE [found |-> "undefined"]

\* pendingProxyResolutions[proxyResolutionKey]
LookupPending(keyString) ==
    IF keyString \in DOMAIN pendingProxyResolutions
    THEN [found |-> "own", value |-> pendingProxyResolutions[keyString]]
    ELSE IF keyString \in InheritedKeys
    THEN [found |-> "inherited"]
    ELSE [found |-> "undefined"]

\* delete pendingProxyResolutions[proxyResolutionKey]
DeletePending(keyString) ==
    [k \in (DOMAIN pendingProxyResolutions) \ {keyString} |-> pendingProxyResolutions[k]]

LogEntry(keyString, origin, responseConfig, request, response, rec) ==
    [key |-> keyString, origin |-> origin, responseConfig |-> responseConfig,
     request |-> request, response |-> response, effect |-> rec.effect,
     index |-> IF rec.threw THEN -1 ELSE rec.index]

\* what a step of a call returned, threw or is waiting for
Outcome(op, outcome, value) ==
    IF observed THEN [op |-> op, outcome |-> outcome, value |-> value]
    ELSE [op |-> "unobserved"]

----------------------------------------------------------------------------
(* inject *)

\* Q.defer(): a deferred is settled by the first resolve or reject it gets
DeferredPending == [state |-> "pending"]

DeferredResolve(deferred, value) ==
    IF deferred.state = "pending" THEN [state |-> "fulfilled", value |-> value]
    ELSE deferred

DeferredReject(deferred, reason) ==
    IF deferred.state = "pending" THEN [state |-> "rejected", value |-> reason]
    ELSE deferred

\* the text that inject evaluates (line 37)
Injected(fn) ==
    <<"(", fn, ")(config, injectState, logger, deferred.resolve, imposterState);">>

\* state.hits = (state.hits || 0) + 1
Increment(state) ==
    IF Has(state, "hits") THEN [state EXCEPT !.hits = @ + 1]
    ELSE [hits |-> 1] @@ state

HitsOf(state) == IF Has(state, "hits") THEN state.hits ELSE 0

\* the functions of the model: the statements a function runs when it is
\* called, and those it runs afterwards from a timer it started
Logic(fn) ==
    CASE fn = "returns" ->
           [sync |-> <<[op |-> "return", value |-> [body |-> <<"r">>]]>>, later |-> <<>>]
      [] fn = "callsBack" ->
           [sync |-> <<[op |-> "callback", value |-> [body |-> <<"c">>]]>>, later |-> <<>>]
      [] fn = "callsBackThenReturns" ->
           [sync |-> <<[op |-> "callback", value |-> [body |-> <<"c">>]],
                       [op |-> "return", value |-> [body |-> <<"r">>]]>>,
            later |-> <<>>]
      [] fn = "returnsThenCallsBackLater" ->
           [sync |-> <<[op |-> "return", value |-> [body |-> <<"r">>]]>>,
            later |-> <<[op |-> "callback", value |-> [body |-> <<"c">>]]>>]
      [] fn = "callsBackLaterTwice" ->
           [sync |-> <<>>,
            later |-> <<[op |-> "callback", value |-> [body |-> <<"c">>]],
                        [op |-> "callback", value |-> [body |-> <<"d">>]]>>]
      [] fn = "throws" ->
           [sync |-> <<[op |-> "throw", message |-> "boom"]>>, later |-> <<>>]
      [] fn = "callsBackThenThrows" ->
           [sync |-> <<[op |-> "callback", value |-> [body |-> <<"c">>]],
                       [op |-> "throw", message |-> "boom"]>>,
            later |-> <<>>]
      [] fn = "counts" ->
           [sync |-> <<[op |-> "count"], [op |-> "countOld"], [op |-> "returnCount"]>>,
            later |-> <<>>]

\* the statements of a function, run in order until it returns or throws
RECURSIVE RunLogic(_, _)
RunLogic(ops, run) ==
    IF ops = <<>> \/ run.returned # <<>> \/ run.threw # <<>> THEN run
    ELSE LET s == Head(ops) IN
         RunLogic(Tail(ops),
             CASE s.op = "callback" ->
                    [run EXCEPT !.deferred = DeferredResolve(@, s.value)]
               [] s.op = "return" -> [run EXCEPT !.returned = <<s.value>>]
               [] s.op = "throw" -> [run EXCEPT !.threw = <<s.message>>]
               [] s.op = "count" -> [run EXCEPT !.imposterState = Increment(@)]
               [] s.op = "countOld" -> [run EXCEPT !.injectState = Increment(@)]
               [] s.op = "returnCount" ->
                    [run EXCEPT !.returned =
                        <<[body |-> NumberToString(HitsOf(run.imposterState))]>>])

\* the function is given copies of the state objects: what it writes is lost
EvalInjectedOnCopy(fn, deferred, state, oldState) ==
    [RunLogic(Logic(fn).sync,
              [deferred |-> deferred, imposterState |-> state, injectState |-> oldState,
               returned |-> <<>>, threw |-> <<>>])
        EXCEPT !.imposterState = state, !.injectState = oldState]

\* eval(injected) with the config of lines 26-31: config.state is imposterState
\* itself, and injectState is the object of line 17
EvalInjected(fn, deferred, state, oldState) ==
    RunLogic(Logic(fn).sync,
             [deferred |-> deferred, imposterState |-> state, injectState |-> oldState,
              returned |-> <<>>, threw |-> <<>>])

\* lines 48-50 with the returned value replacing what the callback was given
InjectOutcomeReturnWins(run, fn) ==
    IF run.threw # <<>>
    THEN DeferredReject(run.deferred,
             InjectionError("invalid response injection", Injected(fn), run.threw[1]))
    ELSE IF run.returned # <<>>
    THEN [state |-> "fulfilled", value |-> run.returned[1]]
    ELSE run.deferred

\* what the try and the catch of lines 46-60 do with the deferred
InjectOutcome(run, fn) ==
    IF run.threw # <<>>
    THEN DeferredReject(run.deferred,
             InjectionError("invalid response injection", Injected(fn), run.threw[1]))
    ELSE IF run.returned # <<>>
    THEN DeferredResolve(run.deferred, run.returned[1])
    ELSE run.deferred

IsDryRun(request) == Has(request, "isDryRun") /\ request.isDryRun = TRUE

\* inject without the test of line 40
injectAlways(request, fn, state, oldState) ==
    LET run == EvalInjected(fn, DeferredPending, state, oldState) IN
    [deferred |-> InjectOutcome(run, fn), imposterState |-> run.imposterState,
     injectState |-> run.injectState, evaluated |-> 1,
     later |-> Logic(fn).later, delay |-> FALSE]

\* inject, up to the return of the promise: the deferred, the state objects
\* after the call, how often the function was evaluated, what the function
\* left to run later and whether Q.delay(1) was started
inject(request, fn, state, oldState) ==
    IF IsDryRun(request)
    THEN [deferred |-> DeferredPending, imposterState |-> state,
          injectState |-> oldState, evaluated |-> 0, later |-> <<>>, delay |-> TRUE]
    ELSE LET run == EvalInjected(fn, DeferredPending, state, oldState) IN
         [deferred |-> InjectOutcome(run, fn), imposterState |-> run.imposterState,
          injectState |-> run.injectState, evaluated |-> 1,
          later |-> Logic(fn).later, delay |-> FALSE]

GenPath == <<[matches |-> <<"path">>]>>
GenPathCaseSensitive == <<[matches |-> <<"path">>, caseSensitive |-> TRUE]>>
GenInjected == <<[inject |-> "byPath"]>>
GenFaulty == <<[matches |-> <<"method">>], [inject |-> "faulty"]>>

ProxyTo(mode, generators) ==
    [proxy |-> [to |-> "origin", mode |-> mode, predicateGenerators |-> generators]]

ProxyConfigs ==
    {ProxyTo("proxyOnce", GenPath),
     ProxyTo("proxyAlways", GenPath),
     ProxyTo("proxyTransparent", GenPath),
     ProxyTo("proxyOnce", GenFaulty),
     ProxyTo("proxyAlways", GenFaulty),
     [proxy |-> [to |-> "origin"]],
     [proxy |-> [to |-> "origin", mode |-> "proxyAlways"]],
     [proxy |-> [to |-> "origin", mode |-> "proxyOnce", predicateGenerators |-> GenInjected,
                 addWaitBehavior |-> TRUE, addDecorateBehavior |-> "stamp"],
      _behaviors |-> [decorate |-> "mark"]],
     [proxy |-> [to |-> "origin", mode |-> "proxyAlways",
                 predicateGenerators |-> GenPathCaseSensitive, addWaitBehavior |-> TRUE],
      _behaviors |-> [wait |-> 1]]}

StaticStub ==
    [predicates |-> <<[equals |-> [path |-> "/s"]]>>,
     responses |-> <<[is |-> [body |-> <<"s">>]]>>]

\* a stub whose predicates are the ones GenPath generates for the request /a
SamePredicatesStub ==
    [predicates |-> <<[deepEquals |-> [path |-> "/a"]]>>,
     responses |-> <<[is |-> [body |-> <<"a">>], _behaviors |-> [decorate |-> "mark"]]>>]

TwoTypesStub ==
    [responses |-> <<[is |-> [body |-> <<"s">>], proxy |-> [to |-> "origin"]]>>]

ProxyStub(responseConfig) == [responses |-> <<responseConfig>>]

InitialStubs ==
    {<<ProxyStub(c), StaticStub>> : c \in ProxyConfigs}
    \cup {<<SamePredicatesStub, ProxyStub(c), StaticStub>> :
             c \in {ProxyTo("proxyOnce", GenPath), ProxyTo("proxyAlways", GenPath)}}
    \cup {<<ProxyStub(ProxyTo("proxyAlways", GenPath)), SamePredicatesStub>>,
          <<ProxyStub(ProxyTo("proxyAlways", GenPath)), StaticStub,
            ProxyStub(ProxyTo("proxyOnce", GenPath))>>,
          <<ProxyStub(ProxyTo("proxyOnce", GenPath)),
            ProxyStub(ProxyTo("proxyOnce", GenPath))>>,
          <<ProxyStub(ProxyTo("proxyAlways", GenPath)), SamePredicatesStub,
            ProxyStub(ProxyTo("proxyAlways", GenPath))>>,
          <<TwoTypesStub, StaticStub>>}

\* the repositories a resolver with an in-process proxy starts from
InProcessStubs ==
    {<<ProxyStub(c), StaticStub>> :
        c \in {ProxyTo("proxyOnce", GenPath),
               ProxyTo("proxyAlways", GenPath),
               ProxyTo("proxyTransparent", GenPath),
               ProxyTo("proxyAlways", GenFaulty)}}
    \cup {<<ProxyStub(ProxyTo("proxyAlways", GenPath)), SamePredicatesStub>>,
          <<ProxyStub(ProxyTo("proxyOnce", GenPath)),
            ProxyStub(ProxyTo("proxyOnce", GenPath))>>}

\* no selector has been evaluated, and the controller serves no imposter
NoSelection == [applied |-> FALSE]

ControllerIdle ==
    /\ imposters = EmptyObject
    /\ objects = EmptyObject
    /\ awaiting = <<>>
    /\ sent = <<>>
    /\ invoked = [request |-> 0]

Init ==
    /\ inProcessProxy \in BOOLEAN
    /\ stubs \in (IF inProcessProxy THEN InProcessStubs ELSE InitialStubs)
    /\ stubIds = [n \in 1..Len(stubs) |-> n]
    /\ pendingProxyResolutions = EmptyObject
    /\ nextProxyResolutionKey = 0
    /\ inflight = <<>>
    /\ issued = EmptyObject
    /\ recLog = <<>>
    /\ started = 0
    /\ observed = FALSE
    /\ last = Outcome("create", "response", [resolver |-> "created"])
    /\ imposterState = EmptyObject
    /\ injectState = EmptyObject
    /\ injections = <<>>
    /\ handed = <<>>
    /\ selection = NoSelection
    /\ ControllerIdle

----------------------------------------------------------------------------
(* resolve *)

\* lines 250-252: an unrecognized mode becomes proxyOnce
WithDefaultMode(responseConfig) ==
    IF ModeOf(responseConfig) \notin ProxyModes
    THEN SetMetadata(responseConfig, "proxy", [mode |-> "proxyOnce"])
    ELSE responseConfig

\* resolve of a response with several response types, or with none
ResolveRejected(i, j, request) ==
    LET responseConfig == ResponseConfigAt(i, j) IN
    /\ \/ hasMultipleTypes(responseConfig)
       \/ ~Has(responseConfig, "is") /\ ~Has(responseConfig, "proxy")
          /\ ~Has(responseConfig, "inject")
    /\ last' = Outcome("resolve", "error",
                  IF hasMultipleTypes(responseConfig)
                  THEN ValidationError("each response object must have only one response type",
                                       responseConfig)
                  ELSE ValidationError("unrecognized response type", responseConfig))
    /\ UNCHANGED <<selection, ctlVars, inProcessProxy, stubs, stubIds, pendingProxyResolutions,
                   nextProxyResolutionKey, inflight, issued, recLog, started,
                   observed, dynVars, handed>>

\* resolve of an is response: the clone, then the behavior pipeline; keep says
\* whether the caller holds on to the response object it is given
ResolveStatic(i, j, request, behaviorsResolve, keep) ==
    LET responseConfig == ResponseConfigAt(i, j)
        resolved == processResponseIs(responseConfig, <<i, j>>)
        response == ResolveThen(responseConfig, request, resolved.value)
    IN
    /\ ~hasMultipleTypes(responseConfig)
    /\ Has(responseConfig, "is")
    /\ behaviorsResolve \/ BehaviorsCanFail(responseConfig)
    /\ keep => behaviorsResolve /\ Len(handed) < MaxHanded
    /\ last' = IF ~behaviorsResolve
               THEN Outcome("resolve", "error", [code |-> "behavior failure"])
               ELSE Outcome("resolve", "response", ResolveResult(responseConfig, response))
    /\ handed' = IF keep
                 THEN Append(handed, [value |-> response, alias |-> resolved.alias,
                                      written |-> FALSE])
                 ELSE handed
    /\ UNCHANGED <<selection, ctlVars, inProcessProxy, stubs, stubIds, pendingProxyResolutions,
                   nextProxyResolutionKey, inflight, issued, recLog, started,
                   observed, dynVars>>

NextResolutionKeyWrapping(key) == (key + 1) % 2

\* nextProxyResolutionKey += 1
NextResolutionKey(key) == key + 1

\* resolve of a proxy response when the proxy is out of process: proxyAndRecord
\* saves the state under the next key and resolve returns the callback address
ResolveProxyDelegate(i, j, request) ==
    LET responseConfig == WithDefaultMode(ResponseConfigAt(i, j))
        keyString == NumberToString(nextProxyResolutionKey)
    IN
    /\ ~inProcessProxy
    /\ started < MaxCalls
    /\ ~hasMultipleTypes(ResponseConfigAt(i, j))
    /\ Has(ResponseConfigAt(i, j), "proxy")
    /\ stubs' = [stubs EXCEPT ![i + 1].responses[j + 1] = responseConfig]
    /\ pendingProxyResolutions' =
           (keyString :> [responseConfig |-> responseConfig, request |-> request])
           @@ pendingProxyResolutions
    /\ nextProxyResolutionKey' = NextResolutionKey(nextProxyResolutionKey)
    /\ last' = Outcome("resolve", "response",
                  [proxy |-> responseConfig.proxy, request |-> request,
                   callbackURL |-> CallbackAddress(NumberToString(nextProxyResolutionKey' - 1))])
    /\ issued' = (keyString :>
                     [number |-> nextProxyResolutionKey, responseConfig |-> responseConfig,
                      request |-> request, origin |-> stubIds[i + 1],
                      callbackURL |->
                          CallbackAddress(NumberToString(nextProxyResolutionKey' - 1))]) @@ issued
    /\ started' = started + 1
    /\ UNCHANGED <<selection, ctlVars, inProcessProxy, stubIds, inflight, recLog, observed, dynVars, handed>>

\* resolve of a proxy response when the proxy is in process: proxy.to is called
\* and the call is suspended until it returns
ResolveProxyInProcess(i, j, request) ==
    LET responseConfig == WithDefaultMode(ResponseConfigAt(i, j)) IN
    /\ inProcessProxy
    /\ started < MaxCalls
    /\ ~hasMultipleTypes(ResponseConfigAt(i, j))
    /\ Has(ResponseConfigAt(i, j), "proxy")
    /\ stubs' = [stubs EXCEPT ![i + 1].responses[j + 1] = responseConfig]
    /\ inflight' = Append(inflight,
           [op |-> "resolve", at |-> "proxy.to", responseConfig |-> responseConfig,
            request |-> request, origin |-> stubIds[i + 1]])
    /\ last' = Outcome("resolve", "suspended", [on |-> "proxy.to"])
    /\ started' = started + 1
    /\ UNCHANGED <<selection, ctlVars, inProcessProxy, stubIds, pendingProxyResolutions,
                   nextProxyResolutionKey, issued, recLog, observed, dynVars, handed>>

\* proxy.to settles: lines 255-260 stamp the response time and start the
\* behavior pipeline
ProxyReturned(t, reply, resolved) ==
    /\ t \in 1..Len(inflight)
    /\ inflight[t].op = "resolve"
    /\ inflight[t].at = "proxy.to"
    /\ IF resolved
       THEN /\ inflight' = [inflight EXCEPT ![t] =
                   [at |-> "behaviors",
                    response |-> [body |-> reply.body,
                                  _proxyResponseTime |-> reply.elapsed]]
                   @@ @]
            /\ last' = Outcome("resolve.then", "suspended", [on |-> "behaviors"])
       ELSE /\ inflight' = Remove(inflight, t)
            /\ last' = Outcome("resolve.then", "error", [code |-> "proxy failure"])
    /\ UNCHANGED <<selection, ctlVars, inProcessProxy, stubs, stubIds, pendingProxyResolutions,
                   nextProxyResolutionKey, issued, recLog, started, observed,
                   dynVars, handed>>

----------------------------------------------------------------------------
(* resolveProxy *)

\* resolveProxy up to the point where it returns or waits for the behavior
\* pipeline (lines 361-369 and 377-383)
resolveProxy(proxyResolutionKey, reply) ==
    LET pendingProxyConfig == LookupPending(proxyResolutionKey) IN
    /\ CASE pendingProxyConfig.found = "own" ->
              /\ started < MaxCalls
                        /\ started' = started + 1
              /\ inflight' = Append(inflight,
                     [op |-> "resolveProxy", at |-> "behaviors",
                      key |-> proxyResolutionKey,
                      responseConfig |-> pendingProxyConfig.value.responseConfig,
                      request |-> pendingProxyConfig.value.request,
                      origin |-> issued[proxyResolutionKey].origin,
                      response |-> [body |-> reply.body,
                                    _proxyResponseTime |-> reply.elapsed]])
              /\ last' = Outcome("resolveProxy", "suspended",
                            [on |-> "behaviors", key |-> proxyResolutionKey])
         [] pendingProxyConfig.found = "inherited" ->
              \* truthy, but it has no responseConfig: reading ._behaviors of
              \* undefined throws
              /\ last' = Outcome("resolveProxy", "threw",
                            TypeError("Cannot read property '_behaviors' of undefined"))
              /\ UNCHANGED <<inflight, started>>
         [] OTHER ->
              /\ last' = Outcome("resolveProxy", "error",
                            MissingResourceError("invalid proxy resolution key",
                                                 CallbackAddress(proxyResolutionKey)))
              /\ UNCHANGED <<inflight, started>>
    /\ UNCHANGED <<selection, ctlVars, inProcessProxy, stubs, stubIds, pendingProxyResolutions,
                   nextProxyResolutionKey, issued, recLog, observed, dynVars, handed>>

FreshStubId == Len(stubIds) + 1

\* the behavior pipeline of a suspended call settles; when it resolves, the
\* continuation records the response (lines 261-264 and 370-375)
BehaviorsSettled(t, resolved) ==
    /\ t \in 1..Len(inflight)
    /\ inflight[t].at = "behaviors"
    /\ LET call == inflight[t]
           response == ExecuteBehaviors(call.request, call.response, call.responseConfig)
           rec == recordProxyResponse(stubs, call.responseConfig, call.request, response)
       IN  IF ~resolved
           THEN /\ BehaviorsCanFail(call.responseConfig)
                /\ last' = Outcome(call.op \o ".then", "error", [code |-> "behavior failure"])
                /\ UNCHANGED <<stubs, stubIds, pendingProxyResolutions, recLog>>
           ELSE /\ recLog' = Append(recLog,
                       LogEntry(IF call.op = "resolveProxy" THEN call.key ELSE <<>>,
                                call.origin, call.responseConfig, call.request,
                                response, rec))
                /\ IF rec.threw
                   THEN /\ last' = Outcome(call.op \o ".then", "error", rec.error)
                        /\ UNCHANGED <<stubs, stubIds, pendingProxyResolutions>>
                   ELSE /\ stubs' = rec.stubs
                        /\ stubIds' = IF rec.effect = "insert"
                                      THEN InsertAt(stubIds, rec.index, FreshStubId)
                                      ELSE stubIds
                        /\ pendingProxyResolutions' =
                               IF call.op = "resolveProxy"
                               THEN DeletePending(call.key)
                               ELSE pendingProxyResolutions
                        /\ last' = Outcome(call.op \o ".then", "response",
                                      IF call.op = "resolve"
                                      THEN ResolveResult(call.responseConfig,
                                               ResolveThen(call.responseConfig,
                                                           call.request, response))
                                      ELSE response)
    /\ inflight' = Remove(inflight, t)
    /\ UNCHANGED <<selection, ctlVars, inProcessProxy, nextProxyResolutionKey, issued, started, observed,
                   dynVars, handed>>

----------------------------------------------------------------------------
(* resolve of an inject response, and the callers of resolve *)

DryRun(request) == [isDryRun |-> TRUE] @@ request

\* resolve of an inject response, up to the return of the promise: inject has
\* evaluated the function, or started the delay of a dry run
ResolveInject(i, j, request) ==
    LET responseConfig == ResponseConfigAt(i, j)
        call == inject(request, responseConfig.inject, imposterState, injectState)
    IN
    /\ Len(injections) < MaxInjections
    /\ ~hasMultipleTypes(responseConfig)
    /\ ~Has(responseConfig, "is")
    /\ ~Has(responseConfig, "proxy")
    /\ Has(responseConfig, "inject")
    /\ imposterState' = call.imposterState
    /\ injectState' = call.injectState
    /\ injections' = Append(injections,
           [responseConfig |-> responseConfig, request |-> request,
            deferred |-> call.deferred, evaluated |-> call.evaluated,
            later |-> call.later, delay |-> call.delay, delivered |-> <<>>])
    /\ last' = Outcome("resolve", "suspended", [on |-> "inject"])
    /\ UNCHANGED <<selection, ctlVars, inProcessProxy, stubs, stubIds, pendingProxyResolutions,
                   nextProxyResolutionKey, inflight, issued, recLog, started,
                   observed, handed>>

\* Q.delay(1) of a dry run elapses (lines 41-43)
DelayElapsed(t) ==
    /\ t \in 1..Len(injections)
    /\ injections[t].delay
    /\ injections' = [injections EXCEPT
           ![t].deferred = DeferredResolve(@, EmptyObject),
           ![t].delay = FALSE]
    /\ UNCHANGED <<selection, ctlVars, inProcessProxy, stubs, stubIds, pendingProxyResolutions,
                   nextProxyResolutionKey, inflight, issued, recLog, started,
                   observed, last, imposterState, injectState, handed>>

\* a timer that the injected function started runs its next statement, with
\* the config the function was given
LogicTimerFired(t) ==
    /\ t \in 1..Len(injections)
    /\ injections[t].later # <<>>
    /\ LET run == RunLogic(<<Head(injections[t].later)>>,
                      [deferred |-> injections[t].deferred,
                       imposterState |-> imposterState, injectState |-> injectState,
                       returned |-> <<>>, threw |-> <<>>])
       IN  /\ injections' = [injections EXCEPT ![t].deferred = run.deferred,
                                                ![t].later = Tail(@)]
           /\ imposterState' = run.imposterState
           /\ injectState' = run.injectState
    /\ UNCHANGED <<selection, ctlVars, inProcessProxy, stubs, stubIds, pendingProxyResolutions,
                   nextProxyResolutionKey, inflight, issued, recLog, started,
                   observed, last, handed>>

\* the deferred of an inject call is settled and the continuations of resolve
\* run (lines 295 and 330-346): the call is delivered its response or its error
InjectSettled(t, behaviorsResolve) ==
    /\ t \in 1..Len(injections)
    /\ injections[t].deferred.state # "pending"
    /\ injections[t].delivered = <<>>
    /\ LET call == injections[t]
           result ==
               IF call.deferred.state = "rejected"
               THEN [outcome |-> "error", value |-> call.deferred.value]
               ELSE IF ~behaviorsResolve
               THEN [outcome |-> "error", value |-> [code |-> "behavior failure"]]
               ELSE [outcome |-> "response",
                     value |-> ResolveResult(call.responseConfig,
                                   ResolveThen(call.responseConfig, call.request,
                                               call.deferred.value))]
       IN  /\ behaviorsResolve \/ (/\ call.deferred.state = "fulfilled"
                                   /\ BehaviorsCanFail(call.responseConfig))
           /\ injections' = [injections EXCEPT ![t].delivered = <<result>>]
           /\ last' = Outcome("resolve.then", result.outcome, result.value)
    /\ UNCHANGED <<selection, ctlVars, inProcessProxy, stubs, stubIds, pendingProxyResolutions,
                   nextProxyResolutionKey, inflight, issued, recLog, started,
                   observed, imposterState, injectState, handed>>

\* a caller writes to a response object that resolve gave it; when the object
\* is a stored one, the stored one is written
MutateReturned(h) ==
    /\ h \in 1..Len(handed)
    /\ ~handed[h].written
    /\ LET written == [body |-> <<"w">>] @@ handed[h].value
           alias == handed[h].alias
       IN  /\ handed' = [handed EXCEPT ![h].value = written, ![h].written = TRUE]
           /\ stubs' = IF alias = <<>> THEN stubs
                       ELSE [stubs EXCEPT ![alias[1] + 1].responses[alias[2] + 1].is =
                                written]
    /\ UNCHANGED <<selection, ctlVars, inProcessProxy, stubIds, pendingProxyResolutions,
                   nextProxyResolutionKey, inflight, issued, recLog, started,
                   observed, last, dynVars>>

----------------------------------------------------------------------------

\* the keys a caller may send: every key allocated so far, the next one, and a
\* name that is no key at all
KeyInputs ==
    {NumberToString(n) : n \in 0..nextProxyResolutionKey} \cup InheritedKeys

Next ==
    \/ \E p \in ResponsePositions, request \in Requests :
          \/ ResolveRejected(p[1], p[2], request)
          \/ \E behaviorsResolve \in BOOLEAN :
                ResolveStatic(p[1], p[2], request, behaviorsResolve, FALSE)
          \/ ResolveProxyDelegate(p[1], p[2], request)
          \/ ResolveProxyInProcess(p[1], p[2], request)
    \/ \E t \in 1..Len(inflight), reply \in ProxyReplies, resolved \in BOOLEAN :
          ProxyReturned(t, reply, resolved)
    \/ \E key \in KeyInputs, reply \in ProxyReplies : resolveProxy(key, reply)
    \/ \E t \in 1..Len(inflight), resolved \in BOOLEAN : BehaviorsSettled(t, resolved)

Spec == Init /\ [][Next]_vars

\* the same system with the outcome of every step kept in last, from fewer
\* repositories
InjectStub(fn) == [responses |-> <<[inject |-> fn]>>]

DecoratedInjectStub ==
    [responses |-> <<[inject |-> "returns", _behaviors |-> [decorate |-> "mark"]]>>]

DecoratedProxy ==
    [proxy |-> [to |-> "origin", mode |-> "proxyAlways", predicateGenerators |-> GenPath],
     _behaviors |-> [decorate |-> "mark"]]

\* stubs whose responses have no response type, or more than one
NoTypeStub == [responses |-> <<[_behaviors |-> [decorate |-> "mark"]]>>]

IsInjectStub == [responses |-> <<[is |-> [body |-> <<"s">>], inject |-> "counts"]>>]

ProxyInjectStub == [responses |-> <<[proxy |-> [to |-> "origin"], inject |-> "counts"]>>]

AllTypesStub ==
    [responses |-> <<[is |-> [body |-> <<"s">>], proxy |-> [to |-> "origin"],
                      inject |-> "counts"]>>]

ObservedStubs ==
    {<<ProxyStub(ProxyTo("proxyOnce", GenPath))>>,
     <<ProxyStub(ProxyTo("proxyAlways", GenFaulty))>>,
     <<ProxyStub(ProxyTo("proxyOnce", GenFaulty))>>,
     <<ProxyStub(DecoratedProxy)>>,
     <<InjectStub("callsBack"), InjectStub("callsBackThenReturns")>>,
     <<InjectStub("returnsThenCallsBackLater")>>,
     <<InjectStub("throws"), InjectStub("callsBackLaterTwice")>>,
     <<InjectStub("counts"), StaticStub, NoTypeStub, DecoratedInjectStub>>,
     <<InjectStub("callsBackThenThrows"), TwoTypesStub, NoTypeStub, IsInjectStub,
       ProxyInjectStub, AllTypesStub>>,
     <<StaticStub, SamePredicatesStub>>}

\* whether every response of the repository is an is response
StaticOnly ==
    \A p \in ResponsePositions :
        /\ Has(ResponseConfigAt(p[1], p[2]), "is")
        /\ ~hasMultipleTypes(ResponseConfigAt(p[1], p[2]))

\* every operation of the resolver, and the callers that keep and write to the
\* responses they were given; these callers are followed on the repositories
\* that hold is responses only
NextObserved ==
    \/ Next
    \/ \E p \in ResponsePositions, request \in Requests :
          StaticOnly /\ ResolveStatic(p[1], p[2], request, TRUE, TRUE)
    \/ \E p \in ResponsePositions, request \in {[path |-> "/a", method |-> "GET"]} :
          \/ ResolveInject(p[1], p[2], request)
          \/ ResolveInject(p[1], p[2], DryRun(request))
    \/ \E t \in 1..Len(injections) : DelayElapsed(t)
    \/ \E t \in 1..Len(injections) : LogicTimerFired(t)
    \/ \E t \in 1..Len(injections), behaviorsResolve \in BOOLEAN :
          InjectSettled(t, behaviorsResolve)
    \/ \E h \in 1..Len(handed) : MutateReturned(h)

InitObserved ==
    /\ inProcessProxy \in BOOLEAN
    /\ stubs \in ObservedStubs
    /\ stubIds = [n \in 1..Len(stubs) |-> n]
    /\ pendingProxyResolutions = EmptyObject
    /\ nextProxyResolutionKey = 0
    /\ inflight = <<>>
    /\ issued = EmptyObject
    /\ recLog = <<>>
    /\ started = 0
    /\ observed = TRUE
    /\ last = Outcome("create", "response", [resolver |-> "created"])
    /\ imposterState = EmptyObject
    /\ injectState = EmptyObject
    /\ injections = <<>>
    /\ handed = <<>>
    /\ selection = NoSelection
    /\ ControllerIdle

SpecObserved == InitObserved /\ [][NextObserved]_vars

\* the timers of the event loop fire, and settled promises run their
\* continuations
Fairness ==
    /\ \A t \in 1..MaxInjections : WF_vars(DelayElapsed(t))
    /\ \A t \in 1..MaxInjections : WF_vars(LogicTimerFired(t))
    /\ \A t \in 1..MaxInjections : WF_vars(InjectSettled(t, TRUE))

SpecObservedFair == SpecObserved /\ Fairness

----------------------------------------------------------------------------
(* The two-phase proxy coordinator: claims C1 to C5 *)

\* the digits of a key back to the number
RECURSIVE StringToNumber(_)
StringToNumber(keyString) ==
    IF keyString = <<>> THEN 0
    ELSE 10 * StringToNumber(SubSeq(keyString, 1, Len(keyString) - 1))
         + (CHOOSE d \in 0..9 : Digits[d + 1] = keyString[Len(keyString)])

\* the recordings made for a key
RecordingsFor(keyString) ==
    {n \in 1..Len(recLog) : recLog[n].key = keyString /\ recLog[n].effect # "threw"}

\* C1: a resolution key is completed at most once: whatever the interleaving of
\* the resolveProxy calls that carry it, at most one response is recorded for it.
C1_KeyCompletedAtMostOnce ==
    \A keyString \in DOMAIN issued : Cardinality(RecordingsFor(keyString)) <= 1

\* C2: once a resolveProxy call for a pending key has settled, with a response
\* or with a failure raised while recording, the key is no longer in
\* pendingProxyResolutions.
C2_SettledKeyRemoved ==
    \A n \in 1..Len(recLog) :
        recLog[n].key # <<>> => recLog[n].key \notin DOMAIN pendingProxyResolutions

\* C3: resolveProxy with a key that is not pending (never allocated, or already
\* completed) fails with MissingResourceError carrying the callback address with
\* that key, and leaves pendingProxyResolutions and the repository unchanged.
C3_UnknownKeyRejected ==
    [][\A key \in KeyInputs, reply \in ProxyReplies :
          (resolveProxy(key, reply) /\ key \notin DOMAIN pendingProxyResolutions) =>
              /\ last' = Outcome("resolveProxy", "error",
                            MissingResourceError("invalid proxy resolution key",
                                                 CallbackAddress(key)))
              /\ UNCHANGED <<pendingProxyResolutions, stubs>>]_vars

\* C4: out of process, every resolve of a proxy response allocates a key greater
\* than every key allocated before, stores exactly one new pending entry under it,
\* leaves every other pending entry as it was, and returns a callback address
\* whose last path segment is that key.
C4_FreshKeyPerExchange ==
    [][\A p \in ResponsePositions, request \in Requests :
          ResolveProxyDelegate(p[1], p[2], request) =>
              \E key \in DOMAIN pendingProxyResolutions' :
                  /\ key \notin DOMAIN pendingProxyResolutions
                  /\ \A before \in DOMAIN issued :
                         StringToNumber(before) < StringToNumber(key)
                  /\ DOMAIN pendingProxyResolutions' =
                         DOMAIN pendingProxyResolutions \cup {key}
                  /\ \A other \in DOMAIN pendingProxyResolutions :
                         pendingProxyResolutions'[other] = pendingProxyResolutions[other]
                  /\ pendingProxyResolutions'[key].request = request
                  /\ LastPathSegment(issued'[key].callbackURL) = key]_vars

\* a key is allocated while an older one is pending and another was completed
C4_Witness ==
    /\ <<"0">> \in DOMAIN issued /\ <<"0">> \notin DOMAIN pendingProxyResolutions
    /\ <<"1">> \in DOMAIN pendingProxyResolutions
    /\ LastPathSegment(issued[<<"1">>].callbackURL) = <<"1">>

\* C5: a resolveProxy call with key k runs the behavior pipeline and the
\* recording with the request and the response configuration stored by the
\* resolve that returned k, whatever the order of the completions.
C5_CompletionUsesOwnExchange ==
    /\ \A t \in 1..Len(inflight) :
          inflight[t].op = "resolveProxy" =>
              /\ inflight[t].request = issued[inflight[t].key].request
              /\ inflight[t].responseConfig = issued[inflight[t].key].responseConfig
    /\ \A n \in 1..Len(recLog) :
          recLog[n].key # <<>> =>
              /\ recLog[n].request = issued[recLog[n].key].request
              /\ recLog[n].responseConfig = issued[recLog[n].key].responseConfig

\* the second of two exchanges with different requests is completed first
C5_Witness ==
    /\ <<"0">> \in DOMAIN pendingProxyResolutions
    /\ <<"1">> \in DOMAIN issued
    /\ issued[<<"0">>].request # issued[<<"1">>].request
    /\ \E n \in 1..Len(recLog) : recLog[n].key = <<"1">> /\ recLog[n].effect = "insert"

----------------------------------------------------------------------------
(* The proxy recording engine: claims C6 to C10 *)

\* the number of stubs the repository was created with
InitialRules ==
    Len(stubs) - Cardinality({n \in 1..Len(recLog) : recLog[n].effect = "insert"})

\* the positions (from 1) of the stubs that recording inserted
RecordedRules == {i \in 1..Len(stubs) : stubIds[i] > InitialRules}

\* the recording step that has just been taken, if the step was one
JustRecorded == recLog'[Len(recLog')]

IsRecordingStep == Len(recLog') = Len(recLog) + 1 /\ JustRecorded.effect # "threw"

\* what recording made of a proxy response
StubResponseOf(entry) == newIsResponse(entry.response, entry.responseConfig.proxy)

\* exactly three exchanges have been recorded, all of the same request through
\* the same proxyAlways response, and the predicates were generated each time
ThreeExchangesAlways ==
    /\ Len(recLog) = 3
    /\ \A n \in 1..3 :
          /\ recLog[n].effect # "threw"
          /\ ModeOf(recLog[n].responseConfig) = "proxyAlways"
          /\ recLog[n].origin = recLog[1].origin
          /\ recLog[n].responseConfig = recLog[1].responseConfig
          /\ recLog[n].request = recLog[1].request

\* one recorded stub, inserted by the first exchange and extended by the other
\* two, with the three responses in the order of the exchanges
OneRuleThreeResponses ==
    /\ <<recLog[1].effect, recLog[2].effect, recLog[3].effect>>
           = <<"insert", "append", "append">>
    /\ Cardinality(RecordedRules) = 1
    /\ \A i \in RecordedRules :
          /\ recLog[2].index = i - 1
          /\ recLog[3].index = i - 1
          /\ stubs[i].predicates =
                 predicatesFor(recLog[1].request,
                               GeneratorsOf(recLog[1].responseConfig)).predicates
          /\ stubs[i].responses =
                 <<StubResponseOf(recLog[1]), StubResponseOf(recLog[2]),
                   StubResponseOf(recLog[3])>>

\* a stub the repository was created with, placed after the first stub that
\* holds the response, already has the predicates generated for the request
PredicatesAlreadyPresent(responseConfig, request) ==
    \E i \in 1..Len(stubs) :
        /\ stubIds[i] <= InitialRules
        /\ i - 1 > stubIndexFor(stubs, responseConfig)
        /\ Has(stubs[i], "predicates")
        /\ deepEqual(stubs[i].predicates,
                     predicatesFor(request, GeneratorsOf(responseConfig)).predicates)

\* C6 as claimed: in proxyAlways mode three exchanges of the same request
\* through the same proxy response leave exactly one recorded stub with the
\* three responses in order: one insertion, then two appends.
C6_ThreeExchangesOneRule == ThreeExchangesAlways => OneRuleThreeResponses

\* C6 as amended: the same, provided no stub that was already after the stub of
\* the proxy response had the generated predicates before the first exchange.
C6_ThreeExchangesOneRuleWhenFresh ==
    (/\ ThreeExchangesAlways
     /\ ~PredicatesAlreadyPresent(recLog[1].responseConfig, recLog[1].request))
        => OneRuleThreeResponses

\* three exchanges in proxyAlways mode with responses that differ
C6_Witness ==
    /\ ThreeExchangesAlways
    /\ ~PredicatesAlreadyPresent(recLog[1].responseConfig, recLog[1].request)
    /\ recLog[1].response # recLog[2].response
    /\ Len(stubs) = InitialRules + 1

\* C7: in proxyOnce mode every recorded exchange inserts one new stub holding
\* exactly one is response and changes no other stub, also when a stub with the
\* same predicates was recorded before.
C7_ProxyOnceAlwaysInserts ==
    [][(IsRecordingStep /\ ModeOf(JustRecorded.responseConfig) = "proxyOnce") =>
          /\ JustRecorded.effect = "insert"
          /\ Len(stubs') = Len(stubs) + 1
          /\ \E at \in 1..Len(stubs') :
                /\ stubs'[at].responses = <<StubResponseOf(JustRecorded)>>
                /\ DOMAIN stubs'[at].responses[1].is = DOMAIN JustRecorded.response
                /\ stubs = SubSeq(stubs', 1, at - 1) \o SubSeq(stubs', at + 1, Len(stubs'))]_vars

\* the same request was recorded twice in proxyOnce mode through the same
\* response: two stubs with the same predicates
C7_Witness ==
    \E n, m \in 1..Len(recLog) :
        /\ n < m
        /\ ModeOf(recLog[n].responseConfig) = "proxyOnce"
        /\ recLog[n].origin = recLog[m].origin
        /\ recLog[n].request = recLog[m].request
        /\ recLog[n].effect = "insert" /\ recLog[m].effect = "insert"
        /\ \E i, j \in RecordedRules : i # j /\ stubs[i].predicates = stubs[j].predicates

IsTransparent(responseConfig) ==
    Has(responseConfig, "proxy") /\ ModeOf(responseConfig) = "proxyTransparent"

\* a step of an exchange whose proxy response is in proxyTransparent mode
TransparentStep ==
    \/ \E p \in ResponsePositions, request \in Requests :
          /\ IsTransparent(ResponseConfigAt(p[1], p[2]))
          /\ \/ ResolveProxyDelegate(p[1], p[2], request)
             \/ ResolveProxyInProcess(p[1], p[2], request)
    \/ \E t \in 1..Len(inflight) :
          /\ IsTransparent(inflight[t].responseConfig)
          /\ \/ \E reply \in ProxyReplies, resolved \in BOOLEAN :
                   ProxyReturned(t, reply, resolved)
             \/ \E resolved \in BOOLEAN : BehaviorsSettled(t, resolved)
    \/ \E key \in DOMAIN pendingProxyResolutions, reply \in ProxyReplies :
          /\ IsTransparent(pendingProxyResolutions[key].responseConfig)
          /\ resolveProxy(key, reply)

\* C8: no step of an exchange in proxyTransparent mode changes the repository.
C8_TransparentNeverRecords == [][TransparentStep => stubs' = stubs]_vars

\* exchanges in proxyTransparent mode went through recordProxyResponse with
\* different responses
C8_Witness ==
    \E n, m \in 1..Len(recLog) :
        /\ recLog[n].effect = "none" /\ recLog[m].effect = "none"
        /\ recLog[n].response # recLog[m].response
        /\ Len(stubs) = InitialRules

\* the position (from 0) of the stub an exchange came from
OriginIndex(entry) == (CHOOSE i \in 1..Len(stubIds) : stubIds[i] = entry.origin) - 1

\* the stubs before a position are the same in both lists
SameBefore(index) == SubSeq(stubs', 1, index) = SubSeq(stubs, 1, index)

AsProxyOnce(responseConfig) == [responseConfig EXCEPT !.proxy.mode = "proxyOnce"]

StubsAsProxyOnce(stubList, responseConfig) ==
    [i \in 1..Len(stubList) |->
        [stubList[i] EXCEPT !.responses =
            [r \in 1..Len(@) |-> IF @[r] = responseConfig
                                 THEN AsProxyOnce(responseConfig) ELSE @[r]]]]

\* what proxyOnce records in the same repository for the same exchange
OnceWouldRecord(entry) ==
    recordProxyResponse(StubsAsProxyOnce(stubs, entry.responseConfig),
                        AsProxyOnce(entry.responseConfig), entry.request, entry.response)

----------------------------------------------------------------------------
(* The proxy recording engine: claims C11, C14 and C15 *)

\* the predicates generated for a recorded exchange
GeneratedFor(entry) ==
    predicatesFor(entry.request, GeneratorsOf(entry.responseConfig)).predicates

\* the positions (from 0) after the stub an exchange came from whose stubs have
\* the generated predicates
CandidatesAfterOrigin(entry) ==
    {index \in (OriginIndex(entry) + 1)..(Len(stubs) - 1) :
        /\ Has(StubAt(stubs, index), "predicates")
        /\ deepEqual(GeneratedFor(entry), StubAt(stubs, index).predicates)}

\* C11: in proxyAlways mode the stub that receives the appended response is the
\* first stub after the stub that produced the exchange whose predicates are
\* the generated ones; a stub at or before that one is never extended, also
\* when two stubs hold equal proxy responses.
C11_AppendsAfterOriginatingRule ==
    [][(IsRecordingStep /\ JustRecorded.effect = "append") =>
          /\ JustRecorded.index > OriginIndex(JustRecorded)
          /\ CandidatesAfterOrigin(JustRecorded) # {}
          /\ JustRecorded.index = Min(CandidatesAfterOrigin(JustRecorded))]_vars

\* a generator of the response is custom code that faults for the request
GeneratorFaults(responseConfig, request) ==
    \E g \in 1..Len(GeneratorsOf(responseConfig)) :
        /\ Has(GeneratorsOf(responseConfig)[g], "inject")
        /\ EvalPredicateGenerator(GeneratorsOf(responseConfig)[g].inject, request).threw

\* C14: when a custom predicate generator faults during recording in proxyOnce
\* or proxyAlways mode, the resolve or resolveProxy call fails with
\* InjectionError and the repository is unchanged: nothing is inserted or
\* appended with the predicates generated before the fault.
C14_GeneratorFaultRecordsNothing ==
    [][(/\ Len(recLog') = Len(recLog) + 1
        /\ ModeOf(JustRecorded.responseConfig) \in {"proxyOnce", "proxyAlways"}
        /\ GeneratorFaults(JustRecorded.responseConfig, JustRecorded.request)) =>
          /\ JustRecorded.effect = "threw"
          /\ stubs' = stubs
          /\ last'.op \in {"resolve.then", "resolveProxy.then"}
          /\ last'.outcome = "error"
          /\ last'.value.code = "invalid injection"
          /\ last'.value.message = "invalid predicateGenerator injection"]_vars

\* a recording failed in proxyOnce mode after a predicate had been generated
C14_Witness ==
    /\ last.outcome = "error"
    /\ last.value.code = "invalid injection"
    /\ \E n \in 1..Len(recLog) :
          /\ recLog[n].effect = "threw"
          /\ ModeOf(recLog[n].responseConfig) = "proxyOnce"
          /\ ~Has(GeneratorsOf(recLog[n].responseConfig)[1], "inject")
    /\ Len(stubs) = InitialRules

\* the shapes of a change of the repository
InsertedOneRule ==
    /\ Len(stubs') = Len(stubs) + 1
    /\ \E at \in 1..Len(stubs') : Remove(stubs', at) = stubs

AppendedOneResponse ==
    /\ Len(stubs') = Len(stubs)
    /\ \E i \in 1..Len(stubs) :
          /\ Len(stubs'[i].responses) = Len(stubs[i].responses) + 1
          /\ [stubs' EXCEPT ![i].responses = SubSeq(@, 1, Len(@) - 1)] = stubs

DefaultedMode ==
    \E p \in ResponsePositions :
        /\ Has(ResponseConfigAt(p[1], p[2]), "proxy")
        /\ stubs' = [stubs EXCEPT ![p[1] + 1].responses[p[2] + 1] = WithDefaultMode(@)]

\* C15: no step removes or reorders a stub or a response: a step leaves the
\* repository as it is, or writes the default mode into a proxy response, or is
\* a recording step that inserts one stub or appends one response to one stub.
C15_RepositoryOnlyGrows ==
    [][/\ \/ stubs' = stubs
          \/ DefaultedMode
          \/ InsertedOneRule
          \/ AppendedOneResponse
       /\ (InsertedOneRule \/ AppendedOneResponse) => IsRecordingStep
       /\ IsRecordingStep =>
             /\ JustRecorded.effect = "insert" => InsertedOneRule
             /\ JustRecorded.effect = "append" => AppendedOneResponse
             /\ JustRecorded.effect = "none" => stubs' = stubs]_vars

\* a stub was inserted and then extended, between stubs that are all still
\* there in their order
C15_Witness ==
    /\ \E n, m \in 1..Len(recLog) :
          n < m /\ recLog[n].effect = "insert" /\ recLog[m].effect = "append"
    /\ Len(stubs) = InitialRules + 1
    /\ \A i, k \in 1..Len(stubs) :
          (i < k /\ stubIds[i] <= InitialRules /\ stubIds[k] <= InitialRules)
              => stubIds[i] < stubIds[k]

----------------------------------------------------------------------------
(* resolve and the response types: claims C12 and C13 *)

\* the response types that a response configuration sets
TypesOf(responseConfig) == {"is", "proxy", "inject"} \cap DOMAIN responseConfig

AllRequests == Requests \cup {DryRun(request) : request \in Requests}

\* a step of resolve, called with the response at position p
ResolveCalled(p, request) ==
    \/ ResolveRejected(p[1], p[2], request)
    \/ \E behaviorsResolve \in BOOLEAN, keep \in BOOLEAN :
          ResolveStatic(p[1], p[2], request, behaviorsResolve, keep)
    \/ ResolveProxyDelegate(p[1], p[2], request)
    \/ ResolveProxyInProcess(p[1], p[2], request)
    \/ ResolveInject(p[1], p[2], request)

\* C12: resolve of a response configuration that sets none, two or three of
\* is, proxy and inject fails with a ValidationError, and the call changes
\* nothing: no pending entry, no key, no change to the repository, no call of
\* the proxy, no evaluation of an injected function, no run of the behavior
\* pipeline and no change to the state objects.
C12_InvalidTypesRejectedWithoutEffect ==
    [][\A p \in ResponsePositions, request \in AllRequests :
          (/\ Cardinality(TypesOf(ResponseConfigAt(p[1], p[2]))) # 1
           /\ ResolveCalled(p, request)) =>
             /\ last'.op = "resolve"
             /\ last'.outcome = "error"
             /\ last'.value.code = "bad data"
             /\ UNCHANGED <<stubs, stubIds, pendingProxyResolutions,
                            nextProxyResolutionKey, inflight, issued, recLog, started,
                            imposterState, injectState, injections, handed>>]_vars

\* a response with all three types has been rejected while an inject call was
\* waiting for its callback
C12_Witness ==
    /\ last.op = "resolve"
    /\ last.outcome = "error"
    /\ last.value.code = "bad data"
    /\ TypesOf(last.value.source) = {"is", "proxy", "inject"}
    /\ \E t \in 1..Len(injections) : injections[t].delivered = <<>>

\* how often the decorate behavior of the model was applied to a response
Marks(response) ==
    IF Has(response, "body")
    THEN Cardinality({k \in 1..Len(response.body) : response.body[k] = "mark"})
    ELSE 0

\* how often the pipeline of a response configuration is to decorate
ExpectedMarks(responseConfig) ==
    IF Has(responseConfig, "_behaviors") /\ Has(responseConfig._behaviors, "decorate")
    THEN 1 ELSE 0

\* the response in what resolve resolved with
ResponseIn(responseConfig, value) ==
    IF inProcessProxy \/ Has(responseConfig, "proxy") THEN value ELSE value.response

\* (the responses of the proxy and of the injected functions have no mark)
\* C13: the behavior pipeline is applied exactly once to the final response of
\* an exchange: in resolve for is and inject responses; for a proxy response
\* before the recording, so that what is recorded and what the exchange ends
\* with is the one response after the pipeline (in process the resolve that
\* called the proxy does not run it again); the resolve that delegates to an
\* out-of-process proxy returns the proxy request and no response.
C13_BehaviorsAppliedOnce ==
    [][/\ (Len(recLog') = Len(recLog) + 1) =>
             /\ Marks(JustRecorded.response) = ExpectedMarks(JustRecorded.responseConfig)
             /\ JustRecorded.effect \in {"insert", "append"} =>
                   LET responses == stubs'[JustRecorded.index + 1].responses IN
                   responses[Len(responses)].is = JustRecorded.response
             /\ JustRecorded.effect # "threw" =>
                   /\ last'.outcome = "response"
                   /\ last'.value = JustRecorded.response
       /\ \A p \in ResponsePositions, request \in Requests :
             /\ ResolveProxyDelegate(p[1], p[2], request) =>
                   DOMAIN last'.value = {"proxy", "request", "callbackURL"}
             /\ (\E keep \in BOOLEAN : ResolveStatic(p[1], p[2], request, TRUE, keep)) =>
                   Marks(ResponseIn(ResponseConfigAt(p[1], p[2]), last'.value))
                       = Marks(ResponseConfigAt(p[1], p[2]).is)
                         + ExpectedMarks(ResponseConfigAt(p[1], p[2]))
       /\ \A t \in 1..Len(injections) :
             (/\ injections[t].delivered = <<>>
              /\ injections'[t].delivered # <<>>
              /\ injections'[t].delivered[1].outcome = "response") =>
                Marks(ResponseIn(injections[t].responseConfig,
                                 injections'[t].delivered[1].value))
                    = Marks(injections[t].deferred.value)
                      + ExpectedMarks(injections[t].responseConfig)]_vars

\* exchanges with a decorating pipeline have ended: an in-process proxy
\* exchange that was recorded, and its final response has the mark once
C13_Witness ==
    /\ inProcessProxy
    /\ last.op = "resolve.then"
    /\ last.outcome = "response"
    /\ Marks(last.value) = 1
    /\ \E n \in 1..Len(recLog) :
          /\ recLog[n].responseConfig = DecoratedProxy
          /\ recLog[n].effect = "append"
          /\ recLog[n].response = last.value

----------------------------------------------------------------------------
(* inject: claims C16, C17, C18 and C20 *)

\* the deferred of an inject call was resolved with {}
CompletedEmpty(call) ==
    /\ call.deferred.state = "fulfilled"
    /\ DOMAIN call.deferred.value = {}

\* C16: resolve of an inject response for a request flagged isDryRun never
\* evaluates the function: the state objects are unchanged, nothing of the
\* function runs then or later, and the deferred is settled by nothing but the
\* delay; the promise is still pending when the call returns, and it is always
\* resolved later, with the empty response {}.
C16_DryRunCompletesEmptyLater ==
    /\ [][/\ \A p \in ResponsePositions, request \in Requests :
                ResolveInject(p[1], p[2], DryRun(request)) =>
                   /\ imposterState' = imposterState
                   /\ injectState' = injectState
                   /\ injections'[Len(injections')].evaluated = 0
                   /\ injections'[Len(injections')].later = <<>>
                   /\ injections'[Len(injections')].deferred.state = "pending"
          /\ \A t \in 1..Len(injections) :
                IsDryRun(injections[t].request) =>
                   /\ injections'[t].evaluated = 0
                   /\ injections'[t].deferred # injections[t].deferred =>
                         /\ DelayElapsed(t)
                         /\ CompletedEmpty(injections'[t])]_vars
    /\ \A t \in 1..MaxInjections :
          (Len(injections) >= t /\ IsDryRun(injections[t].request))
              ~> (Len(injections) >= t /\ CompletedEmpty(injections[t]))

\* a dry run of the counting function was delivered its empty response, and
\* the state objects are as they were created
C16_Witness ==
    /\ DOMAIN imposterState = {}
    /\ DOMAIN injectState = {}
    /\ \E t \in 1..Len(injections) :
          /\ IsDryRun(injections[t].request)
          /\ injections[t].responseConfig.inject = "counts"
          /\ injections[t].delivered # <<>>
          /\ injections[t].delivered[1].outcome = "response"
          /\ DOMAIN ResponseIn(injections[t].responseConfig,
                               injections[t].delivered[1].value) = {}

IsCallback(s) == s.op = "callback"

IsReturn(s) == s.op = "return"

IsThrow(s) == s.op = "throw"

\* the functions of the model that only call back, return a value or throw
PlainLogic(fn) ==
    \A k \in 1..Len(Logic(fn).sync) : Logic(fn).sync[k].op \in {"callback", "return", "throw"}

\* what the deferred is to hold when the call of a function has ended: the
\* argument of the first callback, else the value returned
SettledByCall(fn) ==
    LET callbacks == SelectSeq(Logic(fn).sync, IsCallback)
        returns == SelectSeq(Logic(fn).sync, IsReturn)
    IN  IF callbacks # <<>> THEN <<callbacks[1].value>>
        ELSE IF returns # <<>> THEN <<returns[1].value>>
        ELSE <<>>

\* C17: for a request that is no dry run, the function of an inject response is
\* evaluated once per resolve, and the exchange gets at most one response: the
\* value the function returned if it had not called the callback, otherwise the
\* argument of the first call of the callback, during the evaluation or later;
\* callbacks and return values after that change nothing, and the call is
\* delivered one outcome, which for a response is the settled one.
C17_EvaluatedOnceSettledOnce ==
    [][/\ \A p \in ResponsePositions, request \in Requests :
             ResolveInject(p[1], p[2], request) =>
                LET fn == ResponseConfigAt(p[1], p[2]).inject
                    call == injections'[Len(injections')]
                IN  /\ call.evaluated = 1
                    /\ (PlainLogic(fn) /\ SettledByCall(fn) # <<>>) =>
                          /\ call.deferred.state = "fulfilled"
                          /\ call.deferred.value = SettledByCall(fn)[1]
                    /\ (PlainLogic(fn) /\ SelectSeq(Logic(fn).sync, IsThrow) = <<>>
                        /\ SettledByCall(fn) = <<>>) =>
                          call.deferred.state = "pending"
       /\ \A t \in 1..Len(injections) :
             ~IsDryRun(injections[t].request) =>
                /\ injections'[t].evaluated = 1
                /\ injections[t].deferred.state # "pending" =>
                      injections'[t].deferred = injections[t].deferred
                /\ (/\ injections[t].deferred.state = "pending"
                    /\ injections'[t].deferred.state # "pending") =>
                      /\ LogicTimerFired(t)
                      /\ IsCallback(Head(injections[t].later))
                      /\ injections'[t].deferred.state = "fulfilled"
                      /\ injections'[t].deferred.value = Head(injections[t].later).value
                /\ injections[t].delivered # <<>> =>
                      injections'[t].delivered = injections[t].delivered
                /\ (/\ injections'[t].delivered # <<>>
                    /\ injections'[t].delivered[1].outcome = "response"
                    /\ ~Has(injections[t].responseConfig, "_behaviors")) =>
                      /\ injections[t].deferred.state = "fulfilled"
                      /\ ResponseIn(injections[t].responseConfig,
                                    injections'[t].delivered[1].value)
                             = injections[t].deferred.value]_vars

\* a function called back twice from its timers, and the call was delivered the
\* argument of the first callback
C17_Witness ==
    \E t \in 1..Len(injections) :
        /\ injections[t].responseConfig.inject = "callsBackLaterTwice"
        /\ ~IsDryRun(injections[t].request)
        /\ injections[t].later = <<>>
        /\ injections[t].delivered # <<>>
        /\ injections[t].delivered[1].outcome = "response"
        /\ ResponseIn(injections[t].responseConfig,
                      injections[t].delivered[1].value) = [body |-> <<"c">>]

\* whether a function of the model throws while it is evaluated
Faults(fn) == SelectSeq(Logic(fn).sync, IsThrow) # <<>>

\* C18: when the function of an inject response throws while it is evaluated,
\* resolve fails with an InjectionError that carries the evaluated text and the
\* message of what was thrown; the call is delivered that error and no
\* response, and the other inject calls, the pending proxy resolutions and the
\* suspended proxy calls are as they were.
C18_FaultBecomesInjectionError ==
    [][/\ \A p \in ResponsePositions, request \in Requests :
             (/\ ResolveInject(p[1], p[2], request)
              /\ Faults(ResponseConfigAt(p[1], p[2]).inject)) =>
                LET fn == ResponseConfigAt(p[1], p[2]).inject
                    call == injections'[Len(injections')]
                IN  /\ call.deferred.state = "rejected"
                    /\ call.deferred.value.code = "invalid injection"
                    /\ call.deferred.value.source = Injected(fn)
                    /\ call.deferred.value.data
                           = SelectSeq(Logic(fn).sync, IsThrow)[1].message
                    /\ SubSeq(injections', 1, Len(injections)) = injections
                    /\ UNCHANGED <<pendingProxyResolutions, nextProxyResolutionKey,
                                   inflight>>
       /\ \A t \in 1..Len(injections) :
             (/\ ~IsDryRun(injections[t].request)
              /\ Faults(injections[t].responseConfig.inject)
              /\ injections'[t].delivered # <<>>) =>
                /\ injections'[t].delivered[1].outcome = "error"
                /\ injections'[t].delivered[1].value.code = "invalid injection"]_vars

\* C20: the state objects are handed to the function itself and the resolver
\* never resets or replaces them: what a function writes is what the function
\* of the next exchange reads, and only the evaluation of a function (in the
\* call or in its timers) changes them; resolve of is and proxy responses, dry
\* runs, rejected response configurations and the completions of exchanges
\* leave them as they are.
C20_StateSharedAndKept ==
    [][/\ (imposterState' # imposterState \/ injectState' # injectState) =>
             \/ \E p \in ResponsePositions, request \in Requests :
                   ResolveInject(p[1], p[2], request)
             \/ \E t \in 1..Len(injections) : LogicTimerFired(t)
       /\ HitsOf(imposterState') >= HitsOf(imposterState)
       /\ HitsOf(injectState') >= HitsOf(injectState)
       /\ \A p \in ResponsePositions, request \in Requests :
             (/\ ResolveInject(p[1], p[2], request)
              /\ ResponseConfigAt(p[1], p[2]).inject = "counts") =>
                /\ HitsOf(imposterState') = HitsOf(imposterState) + 1
                /\ HitsOf(injectState') = HitsOf(injectState) + 1
                /\ injections'[Len(injections')].deferred.value
                       = [body |-> NumberToString(HitsOf(imposterState) + 1)]]_vars

\* the counting function ran in two exchanges and the second one read what the
\* first one wrote; a response configuration without a type was rejected after
\* that
C20_Witness ==
    /\ HitsOf(imposterState) = 2
    /\ Len(injections) = 2
    /\ injections[2].delivered # <<>>
    /\ injections[2].delivered[1].outcome = "response"
    /\ ResponseIn(injections[2].responseConfig, injections[2].delivered[1].value)
           = [body |-> <<"2">>]
    /\ last.op = "resolve"
    /\ last.outcome = "error"
    /\ last.value.code = "bad data"

----------------------------------------------------------------------------
(* The is branch of processResponse: claim C19 *)

\* every is payload that is stored is stored unchanged after the step, in the
\* same stub and at the same place among its responses
StoredPayloadsKept ==
    \A i \in 1..Len(stubs) :
        \E k \in 1..Len(stubs') :
            /\ stubIds'[k] = stubIds[i]
            /\ Len(stubs'[k].responses) >= Len(stubs[i].responses)
            /\ \A j \in 1..Len(stubs[i].responses) :
                  Has(stubs[i].responses[j], "is") =>
                     /\ Has(stubs'[k].responses[j], "is")
                     /\ stubs'[k].responses[j].is = stubs[i].responses[j].is

\* C19: resolve of an is response resolves with a value equal to the stored
\* payload that is not the stored object: whatever callers write to the
\* responses they were given, and in whatever order they resolve and write, no
\* stored payload changes, so every resolve of the response returns the payload
\* as it was configured (for a response without behaviors: with behaviors the
\* pipeline works on the copy).
C19_StaticResponseIsACopy ==
    [][/\ StoredPayloadsKept
       /\ \A h \in 1..Len(handed) :
             (handed'[h] # handed[h]) => (MutateReturned(h) /\ stubs' = stubs)
       /\ \A p \in ResponsePositions, request \in Requests, keep \in BOOLEAN :
             (/\ ResolveStatic(p[1], p[2], request, TRUE, keep)
              /\ ~Has(ResponseConfigAt(p[1], p[2]), "_behaviors")) =>
                /\ ResponseIn(ResponseConfigAt(p[1], p[2]), last'.value)
                       = ResponseConfigAt(p[1], p[2]).is
                /\ keep => handed'[Len(handed')].alias = <<>>]_vars

\* a caller wrote to the response it was given, the payload is stored as it
\* was configured, and a response resolved from it is held unwritten
C19_Witness ==
    /\ stubs = <<StaticStub, SamePredicatesStub>>
    /\ Len(handed) = 2
    /\ handed[1].written
    /\ handed[1].value.body = <<"w">>
    /\ ~handed[2].written
    /\ handed[2].value = StaticStub.responses[1].is
    /\ last.op = "resolve"
    /\ last.outcome = "response"
    /\ ResponseIn(StaticStub.responses[1], last.value) = StaticStub.responses[1].is

----------------------------------------------------------------------------
(* newIsResponse: claim C21 *)

\* the response that the recording step just taken has stored
StoredResponse ==
    LET responses == stubs'[JustRecorded.index + 1].responses
    IN  responses[Len(responses)]

AsksForWait(proxyConfig) ==
    Has(proxyConfig, "addWaitBehavior") /\ proxyConfig.addWaitBehavior

\* C21: when the proxy configuration asks for a wait behavior, every is
\* response that recording stores has a wait behavior equal to the time
\* measured for that exchange, whatever was measured, 0 included; when the
\* configuration asks for no wait and no decorate behavior, the stored response
\* has no _behaviors.
C21_WaitCarriesMeasuredLatency ==
    [][(IsRecordingStep /\ JustRecorded.effect \in {"insert", "append"}) =>
          /\ AsksForWait(JustRecorded.responseConfig.proxy) =>
                /\ Has(StoredResponse, "_behaviors")
                /\ Has(StoredResponse._behaviors, "wait")
                /\ StoredResponse._behaviors.wait
                       = JustRecorded.response._proxyResponseTime
          /\ (/\ ~AsksForWait(JustRecorded.responseConfig.proxy)
              /\ ~Has(JustRecorded.responseConfig.proxy, "addDecorateBehavior")) =>
                ~Has(StoredResponse, "_behaviors")]_vars

----------------------------------------------------------------------------
(* Selectors: selectionValue, xpathValue, jsonpathValue *)

\* the longest list of nodes a selector matches
MaxNodes == 3

NodeValues == {"a", "b", "c"}

\* JavaScript values a selector library hands back, by their type
Undefined == [type |-> "undefined"]
Boolean(b) == [type |-> "boolean", bool |-> b]
Count(n) == [type |-> "number", count |-> n]
String(text) == [type |-> "string", text |-> text]
Array(items) == [type |-> "array", items |-> items]

NodeLists ==
    UNION {[1..n -> {String(v) : v \in NodeValues}] : n \in 0..MaxNodes}

\* what xpath.select and JSONPath.eval can return
MatchResults ==
    {Undefined}
    \cup {Boolean(b) : b \in BOOLEAN}
    \cup {Count(n) : n \in {0, 1, 2}}
    \cup {String(v) : v \in NodeValues}
    \cup {Array(items) : items \in NodeLists}

\* helpers.defined
defined(obj) == obj.type # "undefined"

selectionValueKeepingList(nodes) ==
    IF ~defined(nodes) THEN String("")
    ELSE nodes

\* lines 65-76
selectionValue(nodes) ==
    IF ~defined(nodes) THEN String("")
    ELSE IF nodes.type # "array" THEN nodes
    ELSE IF Len(nodes.items) = 1 THEN nodes.items[1]
    ELSE nodes

Selected(by, nodes) ==
    [applied |-> TRUE, by |-> by, nodes |-> nodes, value |-> selectionValue(nodes)]

\* lines 78-82, for the nodes xpath.select returned
xpathValue ==
    /\ ~selection.applied
    /\ selection' = Selected("xpathValue", selection.nodes)
    /\ UNCHANGED <<resolverVars, ctlVars>>

\* lines 84-88, for the nodes JSONPath.eval returned
jsonpathValue ==
    /\ ~selection.applied
    /\ selection' = Selected("jsonpathValue", selection.nodes)
    /\ UNCHANGED <<resolverVars, ctlVars>>

\* the resolver created and not called
ResolverIdle ==
    /\ inProcessProxy = FALSE
    /\ stubs = <<>>
    /\ stubIds = <<>>
    /\ pendingProxyResolutions = EmptyObject
    /\ nextProxyResolutionKey = 0
    /\ inflight = <<>>
    /\ issued = EmptyObject
    /\ recLog = <<>>
    /\ started = 0
    /\ observed = FALSE
    /\ last = Outcome("create", "response", [resolver |-> "created"])
    /\ imposterState = EmptyObject
    /\ injectState = EmptyObject
    /\ injections = <<>>
    /\ handed = <<>>

InitSelection ==
    /\ ResolverIdle
    /\ ControllerIdle
    /\ selection \in {[applied |-> FALSE, nodes |-> nodes] : nodes \in MatchResults}

NextSelection ==
    \/ xpathValue
    \/ jsonpathValue

SpecSelection == InitSelection /\ [][NextSelection]_vars

----------------------------------------------------------------------------
(* selectionValue: claim C22 *)

\* C22: the value of a selector is determined by the match result alone: no
\* result gives the empty string, a result that is not a list (a boolean, a
\* count) gives itself, a list of exactly one element gives that element and
\* not a list, and a list of two or more elements gives the whole list in its
\* order.
C22_SelectionValueCollapses ==
    selection.applied =>
        LET nodes == selection.nodes
            value == selection.value
        IN  /\ nodes.type = "undefined" => value = String("")
            /\ nodes.type \in {"boolean", "number"} => value = nodes
            /\ (nodes.type = "array" /\ Len(nodes.items) = 1) =>
                   /\ value.type # "array"
                   /\ value = nodes.items[1]
            /\ (nodes.type = "array" /\ Len(nodes.items) >= 2) =>
                   /\ value.type = "array"
                   /\ value.items = nodes.items

C22_Witness ==
    /\ selection.applied
    /\ selection.nodes.type = "array"
    /\ Len(selection.nodes.items) = 1
    /\ selection.value.type = "string"

----------------------------------------------------------------------------
(* The imposter controller: del, putStubs, putStub, postStub, deleteStub *)

\* requests the controller is given
MaxRequests == 2

ImposterIds == {"4545"}

\* ids that requests name: the imposter's and one the map does not hold
RequestIds == ImposterIds \cup {"5555"}

\* array positions as route parameters spell them
Positions == <<"0", "1", "2", "3">>

\* request.params.stubIndex: any text the route matched
StubIndexes == {"0", "1", "3", "length"}

\* request.body.index
BodyIndexes == {Undefined, Count(-1), Count(0), Count(2), Count(3), String("1")}

\* stubs that requests bring; the validator finds fault with "faulty"
NewStubs == {"stub", "faulty"}

\* request.body.stubs
BodyStubs ==
    {Undefined, String("stub"), Array(<<>>), Array(<<"stub">>), Array(<<"faulty">>)}

\* imposter.stubs()[index] for a property name: an entry of the list, the
\* array's own length property, or nothing
StubsProperty(list, index) ==
    IF \E n \in 1..Len(list) : Positions[n] = index THEN String("object")
    ELSE IF index = "length" THEN Count(Len(list))
    ELSE Undefined

\* the position a route parameter names in the list, 0 when it names none
PositionOf(list, index) ==
    IF \E n \in 1..Len(list) : Positions[n] = index
    THEN CHOOSE n \in 1..Len(list) : Positions[n] = index
    ELSE 0

\* dryRunValidator.validate, when its promise is fulfilled
ValidatorResult(newStubs) ==
    [isValid |-> \A n \in 1..Len(newStubs) : newStubs[n] # "faulty"]

\* imposter.overwriteStubs
overwriteStubs(imposter, newStubs) == [imposter EXCEPT !.stubs = newStubs]

\* imposter.overwriteStubAtIndex
overwriteStubAtIndex(imposter, index, newStub) ==
    LET n == PositionOf(imposter.stubs, index)
    IN  IF n = 0 THEN imposter ELSE [imposter EXCEPT !.stubs[n] = newStub]

\* imposter.addStubAtIndex
addStubAtIndex(imposter, index, newStub) ==
    LET at == IF index > Len(imposter.stubs) THEN Len(imposter.stubs) ELSE index
    IN  [imposter EXCEPT !.stubs = InsertAt(imposter.stubs, at, newStub)]

\* imposter.deleteStubAtIndex
deleteStubAtIndex(imposter, index) ==
    LET n == PositionOf(imposter.stubs, index)
    IN  IF n = 0 THEN imposter
        ELSE [imposter EXCEPT !.stubs =
                 SubSeq(imposter.stubs, 1, n - 1)
                 \o SubSeq(imposter.stubs, n + 1, Len(imposter.stubs))]

\* imposter.stop, up to the promise it returns
stop(imposter) == [imposter EXCEPT !.stopCalls = @ + 1]

\* imposter.toJSON
toJSON(imposter) == [imposter |-> imposter.stubs]

\* request n arrives; nothing has been sent for it yet
Arrived(request) == Append(sent, [request |-> request])

\* response.send(body) for request n, with the status code assigned before it
Send(log, n, response) == [log EXCEPT ![n] = [response |-> response] @@ @]

\* lines 179-184
respondWithValidationErrors(log, n, statusCode) ==
    Send(log, n, [statusCode |-> statusCode, body |-> [errors |-> TRUE]])

\* lines 152-159
validateStubs(newStubs) ==
    IF ~defined(newStubs) THEN <<"'stubs' is a required field">>
    ELSE IF newStubs.type # "array" THEN <<"'stubs' must be an array">>
    ELSE <<>>

\* lines 216-220
validateStubIndex(index, imposter) ==
    IF StubsProperty(imposter.stubs, index).type = "undefined"
    THEN <<"'stubIndex' must be a valid integer">>
    ELSE <<>>

CanArrive(id) ==
    /\ Len(sent) < MaxRequests
    /\ id \in DOMAIN imposters

\* lines 194-203: putStubs up to the call of validate
putStubs(id, body) ==
    LET n == Len(sent) + 1
        request == [op |-> "putStubs", id |-> id, stubs |-> body]
    IN  /\ CanArrive(id)
        /\ IF validateStubs(body) # <<>>
           THEN /\ sent' = respondWithValidationErrors(Arrived(request), n, 400)
                /\ UNCHANGED awaiting
           ELSE /\ sent' = Arrived(request)
                /\ awaiting' = Append(awaiting,
                       [request |-> n, op |-> "putStubs", imposter |-> imposters[id],
                        newStubs |-> body.items])
        /\ UNCHANGED <<resolverVars, selection, imposters, objects, invoked>>

\* lines 230-239: putStub up to the call of validate
putStub(id, stubIndex, newStub) ==
    LET n == Len(sent) + 1
        request == [op |-> "putStub", id |-> id, stubIndex |-> stubIndex,
                    stub |-> newStub]
    IN  /\ CanArrive(id)
        /\ IF validateStubIndex(stubIndex, objects[imposters[id]]) # <<>>
           THEN /\ sent' = respondWithValidationErrors(Arrived(request), n, 404)
                /\ UNCHANGED awaiting
           ELSE /\ sent' = Arrived(request)
                /\ awaiting' = Append(awaiting,
                       [request |-> n, op |-> "putStub", imposter |-> imposters[id],
                        stubIndex |-> stubIndex, newStubs |-> <<newStub>>])
        /\ UNCHANGED <<resolverVars, selection, imposters, objects, invoked>>

\* lines 260-272: postStub up to the call of validate
postStub(id, bodyIndex, newStub) ==
    LET n == Len(sent) + 1
        request == [op |-> "postStub", id |-> id, index |-> bodyIndex, stub |-> newStub]
        length == Len(objects[imposters[id]].stubs)
        index == IF bodyIndex.type = "undefined" THEN Count(length) ELSE bodyIndex
    IN  /\ CanArrive(id)
        /\ IF index.type # "number" \/ index.count < 0 \/ index.count > length
           THEN /\ sent' = respondWithValidationErrors(Arrived(request), n, 400)
                /\ UNCHANGED awaiting
           ELSE /\ sent' = Arrived(request)
                /\ awaiting' = Append(awaiting,
                       [request |-> n, op |-> "postStub", imposter |-> imposters[id],
                        index |-> index.count, newStubs |-> <<newStub>>])
        /\ UNCHANGED <<resolverVars, selection, imposters, objects, invoked>>

\* lines 293-307
deleteStub(id, stubIndex) ==
    LET n == Len(sent) + 1
        request == [op |-> "deleteStub", id |-> id, stubIndex |-> stubIndex]
        ref == imposters[id]
        imposter == objects[ref]
    IN  /\ CanArrive(id)
        /\ IF validateStubIndex(stubIndex, imposter) # <<>>
           THEN /\ sent' = respondWithValidationErrors(Arrived(request), n, 404)
                /\ UNCHANGED <<objects, invoked>>
           ELSE LET deleted == deleteStubAtIndex(imposter, stubIndex)
                IN  /\ objects' = [objects EXCEPT ![ref] = deleted]
                    /\ invoked' = [request |-> n, method |-> "deleteStubAtIndex",
                                   stubIndex |-> stubIndex, stubs |-> imposter.stubs]
                    /\ sent' = Send(Arrived(request), n, [body |-> toJSON(deleted)])
        /\ UNCHANGED <<resolverVars, selection, imposters, awaiting>>

\* the continuation of validate's promise: lines 204-212, 240-248, 273-281
ValidationSettled(k) ==
    LET c == awaiting[k]
        result == ValidatorResult(c.newStubs)
        imposter == objects[c.imposter]
        changed ==
            CASE c.op = "putStubs" -> overwriteStubs(imposter, c.newStubs)
              [] c.op = "putStub" ->
                    overwriteStubAtIndex(imposter, c.stubIndex, c.newStubs[1])
              [] c.op = "postStub" -> addStubAtIndex(imposter, c.index, c.newStubs[1])
        call ==
            CASE c.op = "putStubs" ->
                    [request |-> c.request, method |-> "overwriteStubs",
                     stubs |-> imposter.stubs]
              [] c.op = "putStub" ->
                    [request |-> c.request, method |-> "overwriteStubAtIndex",
                     stubIndex |-> c.stubIndex, stubs |-> imposter.stubs]
              [] c.op = "postStub" ->
                    [request |-> c.request, method |-> "addStubAtIndex",
                     index |-> c.index, stubs |-> imposter.stubs]
    IN  /\ c.op \in {"putStubs", "putStub", "postStub"}
        /\ awaiting' = SubSeq(awaiting, 1, k - 1) \o SubSeq(awaiting, k + 1, Len(awaiting))
        /\ IF result.isValid
           THEN /\ objects' = [objects EXCEPT ![c.imposter] = changed]
                /\ invoked' = call
                /\ sent' = Send(sent, c.request, [body |-> toJSON(changed)])
           ELSE /\ sent' = respondWithValidationErrors(sent, c.request, 400)
                /\ UNCHANGED <<objects, invoked>>
        /\ UNCHANGED <<resolverVars, selection, imposters>>

\* lines 96-106 and 111-114: del up to the promise of stop
del(id) ==
    LET n == Len(sent) + 1
        request == [op |-> "del", id |-> id]
    IN  /\ Len(sent) < MaxRequests
        /\ IF id \in DOMAIN imposters
           THEN LET ref == imposters[id]
                IN  /\ objects' = [objects EXCEPT ![ref] = stop(@)]
                    /\ invoked' = [request |-> n, method |-> "stop"]
                    /\ awaiting' = Append(awaiting,
                           [request |-> n, op |-> "del", id |-> id,
                            json |-> toJSON(objects[ref])])
                    /\ sent' = Arrived(request)
           ELSE /\ sent' = Send(Arrived(request), n, [body |-> EmptyObject])
                /\ UNCHANGED <<objects, invoked, awaiting>>
        /\ UNCHANGED <<resolverVars, selection, imposters>>

\* lines 106-109: the continuation of stop's promise
StopCompleted(k) ==
    LET c == awaiting[k] IN
    /\ c.op = "del"
    /\ awaiting' = SubSeq(awaiting, 1, k - 1) \o SubSeq(awaiting, k + 1, Len(awaiting))
    /\ imposters' = [id \in DOMAIN imposters \ {c.id} |-> imposters[id]]
    /\ sent' = Send(sent, c.request, [body |-> c.json])
    /\ UNCHANGED <<resolverVars, selection, objects, invoked>>

InitController ==
    /\ ResolverIdle
    /\ selection = NoSelection
    /\ imposters = [id \in ImposterIds |-> id]
    /\ objects \in [ImposterIds -> {[stubs |-> list, stopCalls |-> 0]
                                      : list \in {<<"s0">>, <<"s0", "s1">>}}]
    /\ awaiting = <<>>
    /\ sent = <<>>
    /\ invoked = [request |-> 0]

NextController ==
    \/ \E id \in RequestIds :
          \/ \E body \in BodyStubs : putStubs(id, body)
          \/ \E stubIndex \in StubIndexes, newStub \in NewStubs :
                putStub(id, stubIndex, newStub)
          \/ \E bodyIndex \in BodyIndexes, newStub \in NewStubs :
                postStub(id, bodyIndex, newStub)
          \/ \E stubIndex \in StubIndexes : deleteStub(id, stubIndex)
          \/ del(id)
    \/ \E k \in 1..Len(awaiting) :
          \/ ValidationSettled(k)
          \/ StopCompleted(k)

SpecController == InitController /\ [][NextController]_vars

----------------------------------------------------------------------------
(* postStub, putStub: claim C23 *)

\* the imposter method that the step just taken has called
Calls(method) == invoked' # invoked /\ invoked'.method = method

IsPosition(list, stubIndex) == \E n \in 1..Len(list) : Positions[n] = stubIndex

\* C23: whatever other requests for the same imposter are served between the
\* index check of a request and the end of its validation, addStubAtIndex is
\* called only with an index from 0 to the length the stub list has at the
\* call, and overwriteStubAtIndex only with a position the list has at the
\* call.
C23_IndexValidWhenUsed ==
    [][/\ Calls("addStubAtIndex") =>
             invoked'.index \in 0..Len(invoked'.stubs)
       /\ Calls("overwriteStubAtIndex") =>
             IsPosition(invoked'.stubs, invoked'.stubIndex)]_vars

----------------------------------------------------------------------------
(* validate, putStubs, putStub, postStub: claim C24 *)

ChangingMethods == {"overwriteStubs", "overwriteStubAtIndex", "addStubAtIndex"}

\* the continuation of a validation that the step just taken has run
Continued(c) ==
    /\ \E k \in 1..Len(awaiting) : awaiting[k] = c
    /\ c.op \in {"putStubs", "putStub", "postStub"}
    /\ \A k \in 1..Len(awaiting') : awaiting'[k] # c

\* request n arrives in the step just taken
Arrives(n) == n = Len(sent') /\ Len(sent') = Len(sent) + 1

\* what a request asks for cannot be done to the list as it is
Unusable(request, list) ==
    CASE request.op = "putStubs" -> request.stubs.type # "array"
      [] request.op \in {"putStub", "deleteStub"} -> ~IsPosition(list, request.stubIndex)
      [] request.op = "postStub" ->
            /\ request.index.type # "undefined"
            /\ \/ request.index.type # "number"
               \/ request.index.count \notin 0..Len(list)
      [] OTHER -> FALSE

ExpectedStatus(request) ==
    IF request.op \in {"putStub", "deleteStub"} THEN 404 ELSE 400

IsErrorResponse(entry, statusCode) ==
    /\ Has(entry, "response")
    /\ Has(entry.response, "statusCode")
    /\ entry.response.statusCode = statusCode
    /\ Has(entry.response.body, "errors")

\* C24: overwriteStubs, overwriteStubAtIndex and addStubAtIndex are called
\* exactly when the validator has reported the proposed stubs valid; a request
\* whose stubs are missing or not an array, or whose index is out of range, and
\* a request whose stubs the validator faults, leaves the stub list as it is and
\* is answered with an error: 404 for the stub index of putStub and deleteStub,
\* 400 otherwise.
C24_ChangesOnlyAfterValidation ==
    [][/\ \A method \in ChangingMethods : Calls(method) =>
             \E k \in 1..Len(awaiting) :
                /\ awaiting[k].request = invoked'.request
                /\ Continued(awaiting[k])
                /\ ValidatorResult(awaiting[k].newStubs).isValid
       /\ \A k \in 1..Len(awaiting) : Continued(awaiting[k]) =>
             IF ValidatorResult(awaiting[k].newStubs).isValid
             THEN /\ invoked'.request = awaiting[k].request
                  /\ invoked'.method \in ChangingMethods
             ELSE /\ objects' = objects
                  /\ IsErrorResponse(sent'[awaiting[k].request], 400)
       /\ \A n \in 1..Len(sent') :
             (/\ Arrives(n)
              /\ sent'[n].request.id \in DOMAIN imposters
              /\ Unusable(sent'[n].request,
                          objects[imposters[sent'[n].request.id]].stubs)) =>
                /\ objects' = objects
                /\ IsErrorResponse(sent'[n], ExpectedStatus(sent'[n].request))]_vars

----------------------------------------------------------------------------
(* del: claim C25 *)

\* the DELETE requests for id that have been answered with the imposter's JSON
ReportedBy(log, id) ==
    {n \in 1..Len(log) :
        /\ log[n].request.op = "del"
        /\ log[n].request.id = id
        /\ Has(log[n], "response")
        /\ Has(log[n].response.body, "imposter")}

RemovedAfterStop ==
    \A id \in DOMAIN imposters \ DOMAIN imposters' :
        \E k \in 1..Len(awaiting) :
            /\ awaiting[k].op = "del"
            /\ awaiting[k].id = id
            /\ objects[imposters[id]].stopCalls >= 1
            /\ ~Has(sent[awaiting[k].request], "response")
            /\ Has(sent'[awaiting[k].request], "response")
            /\ sent'[awaiting[k].request].response = [body |-> awaiting[k].json]

UnknownIdChangesNothing ==
    \A n \in 1..Len(sent') :
        (/\ Arrives(n)
         /\ sent'[n].request.op = "del"
         /\ sent'[n].request.id \notin DOMAIN imposters) =>
            /\ sent'[n].response = [body |-> EmptyObject]
            /\ imposters' = imposters
            /\ objects' = objects

AnsweredOnlyOnceRemoved ==
    \A n \in 1..Len(sent') :
        (sent'[n].request.op = "del" /\ Has(sent'[n], "response")) =>
            sent'[n].request.id \notin DOMAIN imposters'

StoppedOnce == \A ref \in DOMAIN objects' : objects'[ref].stopCalls <= 1

\* C25: an imposter leaves the map only in the continuation of its stop, and
\* the answer to the DELETE goes out only once it has left; a DELETE for an id
\* the map does not hold is answered with an empty object and changes nothing;
\* and however two DELETE requests for one id interleave, stop is called at
\* most once on the imposter and no more than one of them is answered with the
\* imposter's JSON.
C25_DeleteStopsOnce ==
    [][/\ RemovedAfterStop
       /\ AnsweredOnlyOnceRemoved
       /\ UnknownIdChangesNothing
       /\ StoppedOnce
       /\ \A id \in RequestIds : Cardinality(ReportedBy(sent', id)) <= 1]_vars

====
